---- MODULE Spec2Model ----
(***************************************************************************)
(* A model of the CrunchApp component (crunch_prototype.tsx, carried in    *)
(* src/README.md after the "=======" marker): the hash / localStorage /    *)
(* currentView navigation state, the paginated fetchData coordinator and   *)
(* the approve / reject moderation workflow.                               *)
(*                                                                         *)
(* Strings that the code transforms (location.hash, city names) are        *)
(* sequences of one-character strings, so that trim(), toLowerCase() and   *)
(* the regular-expression prefix removal are computed, not assumed.        *)
(***************************************************************************)
EXTENDS Integers, Sequences, FiniteSets, Bags, TLC

VARIABLES
    \* ---- view / navigation state ----
    mounted,        \* has the component mounted (first render + mount effects)
    currentView,    \* React state currentView
    renderedView,   \* currentView of the last render whose [currentView] effects ran
    hash,           \* window.location.hash
    stored,         \* localStorage['crunch.currentView'] ("null" when absent)
    hashEvents,     \* hashchange events queued by the browser, not yet dispatched
    mountStored,    \* the persisted value found at mount (history)
    mountHash,      \* the fragment found at mount (history)
    touched,        \* has any navigation happened after mount (history)
    navOp,          \* the last navigation operation (history)
    \* ---- listing / pagination state ----
    selectedCity,   \* React state selectedCity
    cityOptions,    \* React state cityOptions: rows of the cities table, once loaded
    citiesLoad,     \* the cities query of the mount effect: "idle", "pending", "done"
    loading,        \* React state loading
    loadError,      \* React state loadError ("null" when there is none)
    restaurants,    \* React state restaurants
    page,           \* React state page (the cursor)
    hasMore,        \* React state hasMore
    pendingSubmissions, \* React state pendingSubmissions
    inflight,       \* fetchData invocations awaiting a response (a bag)
    issued,         \* number of fetchData invocations so far
    overlap,        \* have the invocations in flight overlapped another one (history)
    fetchOp,        \* the last listing / moderation step (history)
    \* ---- moderation state ----
    dbPending,      \* ids of the rows of the backend's pending table
    dbInserted,     \* submission ids of the rows inserted into the backend's
                    \* restaurants table by approve (a bag)
    modOps,         \* approveSubmission / rejectSubmission invocations in progress
    modCount,       \* number of approve / reject invocations so far
    toasts,         \* React state toasts: the notices on screen, oldest first
    timers,         \* ids of the notices whose auto-dismiss timer is pending,
                    \* in the order the timers were set
    toastCount,     \* number of notices shown so far
    \* ---- auth state ----
    isAdmin,        \* React state isAdmin
    roleLookups,    \* users-table queries of the auth callback in flight (a bag)
    authCount,      \* number of auth state changes so far
    sessionUser,    \* session?.user of the most recent auth state change (history)
    \* ---- filter / sort engine ----
    searchQuery,    \* React state searchQuery
    selectedFilters, \* React state selectedFilters
    sortBy,         \* React state sortBy
    filteredRestaurants, \* the memoised visible list
    homeFeatured,   \* the memoised featured list
    renders,        \* number of computations of the two lists so far
    \* ---- suggestion form ----
    newSubmission,  \* React state newSubmission: the fields of the form
    suggestNameTouched,    \* React state suggestNameTouched
    suggestAddressTouched, \* React state suggestAddressTouched
    suggestSuccess, \* React state suggestSuccess: the confirmation is shown
    showSubmissionForm,    \* React state showSubmissionForm
    suggestOps,     \* inserts into restaurant_suggestions awaiting a response
    suggestCount,   \* number of submits of the form so far
    \* ---- field normaliser ----
    raw,            \* the raw value or record handed to a normaliser
    normalised      \* what the normaliser returned for it

navVars == <<mounted, currentView, renderedView, hash, stored, hashEvents,
             mountStored, mountHash, touched, navOp>>

fetchVars == <<selectedCity, cityOptions, citiesLoad, loading, loadError, restaurants,
               page, hasMore, pendingSubmissions, inflight, issued, overlap, fetchOp>>

authVars == <<isAdmin, roleLookups, authCount, sessionUser>>

toastVars == <<toasts, timers, toastCount>>

modVars == <<dbPending, dbInserted, modOps, modCount, toastVars, authVars>>

engineVars == <<searchQuery, selectedFilters, sortBy, filteredRestaurants, homeFeatured,
                renders>>

suggestVars == <<newSubmission, suggestNameTouched, suggestAddressTouched, suggestSuccess,
                 showSubmissionForm, suggestOps, suggestCount>>

pureVars == <<raw, normalised>>

vars == <<navVars, fetchVars, modVars, engineVars, suggestVars, pureVars>>

-----------------------------------------------------------------------------
(* Bounds *)

\* hashchange events that may be queued at once
MaxHashEvents == 2

\* fetchData invocations in one behaviour
MaxFetches == 4

\* approve / reject invocations in one behaviour
MaxModOps == 1

\* approve invocations in one behaviour of the repeated-approve machine
MaxApproves == 2

\* auth state changes in one behaviour
MaxAuthEvents == 2

\* computations of the visible and featured lists in one behaviour
MaxRenders == 2

-----------------------------------------------------------------------------
(* Character-level string helpers *)

UpperChars == <<"A","B","C","D","E","F","G","H","I","J","K","L","M",
                "N","O","P","Q","R","S","T","U","V","W","X","Y","Z">>
LowerChars == <<"a","b","c","d","e","f","g","h","i","j","k","l","m",
                "n","o","p","q","r","s","t","u","v","w","x","y","z">>

\* String.prototype.toLowerCase on one character
LowerChar(c) ==
    IF \E i \in 1..26 : UpperChars[i] = c
    THEN LowerChars[CHOOSE i \in 1..26 : UpperChars[i] = c]
    ELSE c

\* String.prototype.toLowerCase
ToLowerCase(s) == [i \in 1..Len(s) |-> LowerChar(s[i])]

\* the white space characters that occur in the inputs (\s)
WhiteSpace == {" ", "\t"}

RECURSIVE TrimLeft(_)
TrimLeft(s) == IF s # <<>> /\ Head(s) \in WhiteSpace THEN TrimLeft(Tail(s)) ELSE s

RECURSIVE TrimRight(_)
TrimRight(s) ==
    IF s # <<>> /\ s[Len(s)] \in WhiteSpace
    THEN TrimRight(SubSeq(s, 1, Len(s) - 1)) ELSE s

\* String.prototype.trim
Trim(s) == TrimRight(TrimLeft(s))

\* String.prototype.includes
Includes(s, t) ==
    \E i \in 0..(Len(s) - Len(t)) : SubSeq(s, i + 1, i + Len(t)) = t

\* s.replace(/\s+/g, ' ')
RECURSIVE CollapseSpaces(_)
CollapseSpaces(s) ==
    IF s = <<>> THEN <<>>
    ELSE IF Head(s) \in WhiteSpace
         THEN <<" ">> \o CollapseSpaces(TrimLeft(s))
         ELSE <<Head(s)>> \o CollapseSpaces(Tail(s))

\* the members an object literal inherits from Object.prototype whose names
\* are all lower case, so that a lowercased key can name them
ObjectPrototypeKeys == {<<"c","o","n","s","t","r","u","c","t","o","r">>,
                        <<"_","_","p","r","o","t","o","_","_">>}

\* the value of such a member: a function or an object, shown by its name
ObjectPrototypeMember(key) == <<"Object.prototype">> \o key

\* the exception of calling a string method on a value that is not a string
TypeError == <<"TypeError">>

\* the values that are not strings
NonStrings == {TypeError} \cup {ObjectPrototypeMember(k) : k \in ObjectPrototypeKeys}

-----------------------------------------------------------------------------
(* Views and fragments *)

\* type View
Views == {"home", "results", "about", "contact", "suggest", "admin"}

\* the characters of a view name, as used in the template `#/${view}`
ViewChars(v) ==
    CASE v = "home"    -> <<"h","o","m","e">>
      [] v = "results" -> <<"r","e","s","u","l","t","s">>
      [] v = "about"   -> <<"a","b","o","u","t">>
      [] v = "contact" -> <<"c","o","n","t","a","c","t">>
      [] v = "suggest" -> <<"s","u","g","g","e","s","t">>
      [] v = "admin"   -> <<"a","d","m","i","n">>

\* const target = `#/${view}`
HashTarget(v) == <<"#", "/">> \o ViewChars(v)

\* hash.replace(/^#\/?/, '')
StripHashPrefix(h) ==
    IF h # <<>> /\ h[1] = "#"
    THEN IF Len(h) >= 2 /\ h[2] = "/" THEN SubSeq(h, 3, Len(h)) ELSE SubSeq(h, 2, Len(h))
    ELSE h

\* viewFromHash without the toLowerCase() call
viewFromHash_CaseSensitive(h) ==
    LET s == StripHashPrefix(h)
    IN  IF \E v \in Views : ViewChars(v) = s
        THEN CHOOSE v \in Views : ViewChars(v) = s
        ELSE "home"

\* viewFromHash: strip the prefix, lowercase, switch on the six names
viewFromHash(h) ==
    LET s == ToLowerCase(StripHashPrefix(h))
    IN  IF \E v \in Views : ViewChars(v) = s
        THEN CHOOSE v \in Views : ViewChars(v) = s
        ELSE "home"

\* getInitialView: the persisted value when it is an allowed view, else home
getInitialView(saved) == IF saved \in Views THEN saved ELSE "home"

\* fragments the browser may present: absent, the six canonical ones, an
\* unknown one, one without the slash, one in another letter case, a bare '#'
HashInputs ==
    {<<>>, <<"#">>, <<"#","/","u","n","k","n","o","w","n">>,
     <<"#","a","b","o","u","t">>, <<"#","/","A","b","o","u","t">>}
    \cup {HashTarget(v) : v \in Views}

\* values localStorage may hold at startup
StoredInputs == Views \cup {"null", "bogus"}

-----------------------------------------------------------------------------
(* Cities and the city filter of the restaurants query *)

NewYork == <<"N","e","w"," ","Y","o","r","k">>
NYC == <<"N","Y","C">>
LosAngeles == <<"L","o","s"," ","A","n","g","e","l","e","s">>

\* the synonym map of canonicalCity
CityMap ==
    << <<<<"n","y","c">>,
         <<"N","e","w"," ","Y","o","r","k">>>>,
       <<<<"n","e","w"," ","y","o","r","k">>,
         <<"N","e","w"," ","Y","o","r","k">>>>,
       <<<<"n","e","w"," ","y","o","r","k"," ","c","i","t","y">>,
         <<"N","e","w"," ","Y","o","r","k">>>>,
       <<<<"l","o","s"," ","a","n","g","e","l","e","s">>,
         <<"L","o","s"," ","A","n","g","e","l","e","s">>>>,
       <<<<"l","a">>,
         <<"L","o","s"," ","A","n","g","e","l","e","s">>>>,
       <<<<"s","a","n"," ","f","r","a","n","c","i","s","c","o">>,
         <<"S","a","n"," ","F","r","a","n","c","i","s","c","o">>>>,
       <<<<"s","f">>,
         <<"S","a","n"," ","F","r","a","n","c","i","s","c","o">>>>,
       <<<<"s","a","n"," ","f","r","a","n">>,
         <<"S","a","n"," ","F","r","a","n","c","i","s","c","o">>>>,
       <<<<"h","o","u","s","t","o","n">>,
         <<"H","o","u","s","t","o","n">>>>,
       <<<<"a","u","s","t","i","n">>,
         <<"A","u","s","t","i","n">>>> >>

\* map[v] of an object literal given as a sequence of <<key, value>> pairs:
\* the value of the own key v, else the member inherited from
\* Object.prototype, else undefined (the empty sequence, falsy like it)
Lookup(map, v) ==
    IF \E i \in 1..Len(map) : map[i][1] = v
    THEN map[CHOOSE i \in 1..Len(map) : map[i][1] = v][2]
    ELSE IF v \in ObjectPrototypeKeys THEN ObjectPrototypeMember(v)
         ELSE <<>>

\* canonicalCity: look the trimmed, lowercased value up in the synonym map,
\* else return the trimmed value; (value || '').trim() throws on a value that
\* is not a string
canonicalCity(value) ==
    IF value \in NonStrings THEN TypeError
    ELSE LET v == ToLowerCase(Trim(value))
             found == Lookup(CityMap, v)
         IN  IF found # <<>> THEN found ELSE Trim(value)

SanFrancisco == <<"S","a","n"," ","F","r","a","n","c","i","s","c","o">>
Houston == <<"H","o","u","s","t","o","n">>
Austin == <<"A","u","s","t","i","n">>

\* knownCities
knownCities == <<NewYork, LosAngeles, SanFrancisco, Houston, Austin>>

\* contents the cities table may have, ordered by name: both cities (New York
\* stored under its synonym), Los Angeles only, or no row
CityTables ==
    { <<[id |-> 2, name |-> LosAngeles], [id |-> 1, name |-> NYC]>>,
      <<[id |-> 2, name |-> LosAngeles]>>,
      <<>> }

\* cityId when no city option matches
NoCityId == 0

\* match = cityOptions.find(c => canonicalCity(c.name) === targetCity);
\* cityId = match ? match.id : null
ResolveCityId(city, opts) ==
    LET idx == {i \in 1..Len(opts) : canonicalCity(opts[i].name) = canonicalCity(city)}
    IN  IF idx = {} THEN NoCityId
        ELSE opts[CHOOSE i \in idx : \A j \in idx : i <= j].id

\* the filter fetchData puts on the restaurants query: .eq('location', cityId)
\* when the id is resolved, else .eq('cities.name', targetCity)
CityFilter(city, opts) ==
    LET cityId == ResolveCityId(city, opts)
    IN  IF cityId # NoCityId
        THEN [col |-> "location", id |-> cityId, name |-> <<>>]
        ELSE [col |-> "cities.name", id |-> NoCityId, name |-> canonicalCity(city)]

-----------------------------------------------------------------------------
(* Backend rows and their normalisation *)

\* const pageSize = 20
pageSize == 20

\* a null field of a backend row
Null == "<null>"
NullNum == -1

\* number of restaurants rows the backend holds for a filter
TotalRows(filter) ==
    CASE filter.col = "location" /\ filter.id = 1 -> 20
      [] filter.col = "location" /\ filter.id = 2 -> 45
      [] filter.col = "cities.name" /\ filter.name = NewYork -> 41
      [] filter.col = "cities.name" /\ filter.name = LosAngeles -> 5
      [] OTHER -> 0

\* the filters the restaurants query is issued with in this model; a row
\* records the index of the filter that returned it
Queries ==
    << [col |-> "location", id |-> 1, name |-> <<>>],
       [col |-> "location", id |-> 2, name |-> <<>>],
       [col |-> "cities.name", id |-> NoCityId, name |-> NewYork],
       [col |-> "cities.name", id |-> NoCityId, name |-> LosAngeles] >>

\* the index of a filter in Queries (0 for any other filter)
QueryIndex(filter) ==
    IF \E i \in 1..Len(Queries) : Queries[i] = filter
    THEN CHOOSE i \in 1..Len(Queries) : Queries[i] = filter
    ELSE 0

\* the query index of the row an insert returns
InsertQuery == 9

\* the filter strategy that produced a row: "location", "cities.name" or
\* "insert"
StrategyOf(r) == IF r.query \in 1..Len(Queries) THEN Queries[r.query].col ELSE "insert"

\* the row the backend returns at offset off of the result of a filter; the
\* filter's index and off stand for the row's identity
RestaurantRow(filter, off) ==
    [query |-> QueryIndex(filter), off |-> off, name |-> "listed",
     oils_used |-> [t |-> "array", v |-> <<"Olive Oil">>], rating |-> 4]

\* .range(from, to) on the ordered result of a filter
RangeRows(filter, from, to) ==
    LET last == IF to + 1 < TotalRows(filter) THEN to ELSE TotalRows(filter) - 1
        n    == IF last >= from THEN last - from + 1 ELSE 0
    IN  [i \in 1..n |-> RestaurantRow(filter, from + i - 1)]

\* Array.prototype.filter(Boolean) on a list of strings
RECURSIVE FilterNonEmpty(_)
FilterNonEmpty(xs) ==
    IF xs = <<>> THEN <<>>
    ELSE IF Head(xs) = "" THEN FilterNonEmpty(Tail(xs))
         ELSE <<Head(xs)>> \o FilterNonEmpty(Tail(xs))

\* the characters of /[;,]|\n/
Separators == {";", ",", "\n"}

\* String.prototype.split(/[;,]|\n/): the texts between the separators
RECURSIVE Split(_, _)
Split(cs, part) ==
    IF cs = <<>> THEN <<part>>
    ELSE IF Head(cs) \in Separators THEN <<part>> \o Split(Tail(cs), <<>>)
    ELSE Split(Tail(cs), Append(part, Head(cs)))

\* .map(s => s.trim()).filter(Boolean) on the texts of a split
RECURSIVE TrimmedParts(_)
TrimmedParts(parts) ==
    IF parts = <<>> THEN <<>>
    ELSE IF Trim(Head(parts)) = <<>> THEN TrimmedParts(Tail(parts))
    ELSE <<Trim(Head(parts))>> \o TrimmedParts(Tail(parts))

\* splitToArray of a column value [t, v]: a list (t = "array", v its
\* elements) keeps its non-empty elements; a text (t = "string", v its
\* characters) is split, its parts trimmed and the empty ones dropped; any
\* other value gives []
splitToArray(v) ==
    CASE v.t = "array" -> FilterNonEmpty(v.v)
      [] v.t = "string" -> TrimmedParts(Split(v.v, <<>>))
      [] OTHER -> <<>>

\* mapRestaurantRow, for the fields the listing and moderation code reads
mapRestaurantRow(row) ==
    [query    |-> row.query,
     off      |-> row.off,
     name     |-> IF row.name = Null THEN "" ELSE row.name,
     oilsUsed |-> splitToArray(row.oils_used),
     rating   |-> IF row.rating = NullNum THEN 0 ELSE row.rating]

MapRows(rows) == [i \in 1..Len(rows) |-> mapRestaurantRow(rows[i])]

\* ids of the submissions the pending table holds at startup
SubmissionIds == {1, 2}

\* the pending table's row for a submission id
PendingRow(id) ==
    [id |-> id,
     name |-> IF id = 1 THEN "Cafe One" ELSE "Cafe Two",
     neighborhood |-> IF id = 1 THEN Null ELSE "Soho",
     city |-> "New York",
     status |-> "pending"]

\* mapPendingRow
mapPendingRow(row) ==
    [id |-> row.id,
     name |-> IF row.name = Null THEN "" ELSE row.name,
     neighborhood |-> IF row.neighborhood = Null THEN "" ELSE row.neighborhood,
     city |-> IF row.city = Null THEN "" ELSE row.city,
     status |-> IF row.status = Null THEN "pending" ELSE row.status]

\* select('*') on pending, ordered by submitted_date descending (later ids
\* were submitted later), mapped with mapPendingRow
RECURSIVE PendingList(_)
PendingList(ids) ==
    IF ids = {} THEN <<>>
    ELSE LET m == CHOOSE i \in ids : \A j \in ids : j <= i
         IN  <<mapPendingRow(PendingRow(m))>> \o PendingList(ids \ {m})

\* toRestaurantInsertFromPending without the placeholder oils
toRestaurantInsertFromPending_NoPlaceholder(submission) ==
    [name |-> submission.name,
     neighborhood |-> IF submission.neighborhood = "" THEN "TBD" ELSE submission.neighborhood,
     city |-> submission.city,
     oils_used |-> [t |-> "array", v |-> <<>>],
     rating |-> 0]

\* toRestaurantInsertFromPending
toRestaurantInsertFromPending(submission) ==
    [name |-> submission.name,
     neighborhood |-> IF submission.neighborhood = "" THEN "TBD" ELSE submission.neighborhood,
     city |-> submission.city,
     oils_used |-> [t |-> "array", v |-> <<"To Be Verified">>],
     rating |-> 0]

\* the row .insert(payload).select('*').single() returns for the payload of
\* submission id
InsertedRow(payload, id) ==
    [query |-> InsertQuery, off |-> id,
     name |-> payload.name, oils_used |-> payload.oils_used, rating |-> payload.rating]

-----------------------------------------------------------------------------
(* Initial state: the component is constructed, nothing has run yet *)

\* the raw value and the result while no normaliser has been applied
NoValue == <<"none">>

\* the selection of the filter modal after construction
NoFilters ==
    [diet |-> <<>>, oils |-> <<>>, neighborhood |-> <<>>, priceRange |-> <<>>,
     verified |-> FALSE]

\* view state before the mount
InitView ==
    /\ mounted = FALSE
    /\ currentView = "home"
    /\ renderedView = "home"
    /\ hash \in HashInputs
    /\ stored \in StoredInputs
    /\ hashEvents = 0
    /\ mountStored = stored
    /\ mountHash = hash
    /\ touched = FALSE
    /\ navOp = "none"

\* listing state after construction, but for the collection and the city
InitListing ==
    /\ cityOptions = <<>>
    /\ citiesLoad = "idle"
    /\ loading = FALSE
    /\ loadError = Null
    /\ page = 0
    /\ hasMore = TRUE
    /\ pendingSubmissions = <<>>
    /\ inflight = EmptyBag
    /\ issued = 0
    /\ overlap = FALSE
    /\ fetchOp = [op |-> "none", id |-> 0, ok |-> FALSE]

\* moderation, notice and auth state after construction
InitModeration ==
    /\ dbPending = SubmissionIds
    /\ dbInserted = EmptyBag
    /\ modOps = {}
    /\ modCount = 0
    /\ toasts = <<>>
    /\ timers = <<>>
    /\ toastCount = 0
    /\ isAdmin = FALSE
    /\ roleLookups = EmptyBag
    /\ authCount = 0
    /\ sessionUser = "<none>"

\* filter and sort state after construction, the two lists not yet computed
InitEngine ==
    /\ searchQuery = <<>>
    /\ selectedFilters = NoFilters
    /\ sortBy = "rating"
    /\ filteredRestaurants = <<>>
    /\ homeFeatured = <<>>
    /\ renders = 0

\* the suggestion form after construction
InitSuggest ==
    /\ newSubmission = [name |-> <<>>, address |-> <<>>, city |-> NewYork]
    /\ suggestNameTouched = FALSE
    /\ suggestAddressTouched = FALSE
    /\ suggestSuccess = FALSE
    /\ showSubmissionForm = FALSE
    /\ suggestOps = {}
    /\ suggestCount = 0

\* no normaliser applied
InitPure ==
    /\ raw = NoValue
    /\ normalised = NoValue

Init ==
    /\ InitView
    /\ InitListing
    /\ selectedCity = NewYork
    /\ restaurants = <<>>
    /\ InitModeration
    /\ InitEngine
    /\ InitSuggest
    /\ InitPure

-----------------------------------------------------------------------------
(* fetchData *)

\* the invocations in flight
InFlight == BagToSet(inflight)

\* Request with the append page taken one past the cursor
Request_NextPage(reset, city, opts, pg) ==
    LET nextPage == IF reset THEN 0 ELSE pg + 1
        from     == nextPage * pageSize
        to       == from + pageSize - 1
    IN  [reset |-> reset, from |-> from, to |-> to,
         filter |-> CityFilter(city, opts), pc |-> "restaurants"]

\* Request with the append page advanced past the appends already in flight
Request_SkipInFlight(reset, city, opts, pg) ==
    LET ahead    == {g \in BagToSet(inflight) : ~g.reset /\ g.pc = "restaurants"}
        nextPage == IF reset THEN 0 ELSE pg + Cardinality(ahead)
        from     == nextPage * pageSize
        to       == from + pageSize - 1
    IN  [reset |-> reset, from |-> from, to |-> to,
         filter |-> CityFilter(city, opts), pc |-> "restaurants"]

\* fetchData(reset) up to its first await, called from a render whose closure
\* holds selectedCity = city, cityOptions = opts and page = pg: the request it
\* issues and the step of the function it waits in
Request(reset, city, opts, pg) ==
    LET nextPage == IF reset THEN 0 ELSE pg
        from     == nextPage * pageSize
        to       == from + pageSize - 1
    IN  [reset |-> reset, from |-> from, to |-> to,
         filter |-> CityFilter(city, opts), pc |-> "restaurants"]

\* fetchData(reset) up to its first await: setLoading(true), setLoadError(null)
\* and the restaurants query
fetchData(reset, city, opts, pg) ==
    /\ issued < MaxFetches
    /\ loading' = TRUE
    /\ loadError' = Null
    /\ inflight' = inflight (+) SetToBag({Request(reset, city, opts, pg)})
    /\ issued' = issued + 1
    /\ overlap' = (inflight # EmptyBag)

\* an invocation at its pending query; nothing after the restaurants query
\* reads reset, from, to or the city filter
PendingQuery ==
    [reset |-> FALSE, from |-> 0, to |-> 0,
     filter |-> [col |-> "none", id |-> NoCityId, name |-> <<>>], pc |-> "pending"]

\* invocation f moves on to its pending query
ToPendingQuery(f) ==
    (inflight (-) SetToBag({f})) (+) SetToBag({PendingQuery})

\* RestaurantsError that also empties the collection
RestaurantsError_Clears(f) ==
    /\ f \in InFlight /\ f.pc = "restaurants"
    /\ loadError' = "Failed to load restaurants"
    /\ restaurants' = <<>>
    /\ inflight' = ToPendingQuery(f)
    /\ fetchOp' = [op |-> "restaurantsError", id |-> 0, ok |-> FALSE]
    /\ UNCHANGED <<selectedCity, cityOptions, citiesLoad, loading, page,
                   hasMore, pendingSubmissions, issued, overlap>>
    /\ UNCHANGED <<navVars, modVars>>
    /\ UNCHANGED <<engineVars, suggestVars, pureVars>>

\* the restaurants query of invocation f fails
RestaurantsError(f) ==
    /\ f \in InFlight /\ f.pc = "restaurants"
    /\ loadError' = "Failed to load restaurants"
    /\ inflight' = ToPendingQuery(f)
    /\ fetchOp' = [op |-> "restaurantsError", id |-> 0, ok |-> FALSE]
    /\ UNCHANGED <<selectedCity, cityOptions, citiesLoad, loading, restaurants, page,
                   hasMore, pendingSubmissions, issued, overlap>>
    /\ UNCHANGED <<navVars, modVars>>
    /\ UNCHANGED <<engineVars, suggestVars, pureVars>>

\* RestaurantsData that drops the rows of a request whose filter is no longer
\* the one of the selected city
RestaurantsData_Guarded(f, hasCount) ==
    /\ f \in InFlight /\ f.pc = "restaurants"
    /\ LET restaurantsData == RangeRows(f.filter, f.from, f.to)
           mapped == MapRows(restaurantsData)
           count  == TotalRows(f.filter)
       IN  IF f.filter = CityFilter(selectedCity, cityOptions)
           THEN /\ restaurants' = IF f.reset THEN mapped ELSE restaurants \o mapped
                /\ hasMore' = IF hasCount THEN f.to + 1 < count
                              ELSE Len(restaurantsData) = pageSize
                /\ page' = IF f.reset THEN 1 ELSE page + 1
           ELSE UNCHANGED <<restaurants, hasMore, page>>
    /\ inflight' = ToPendingQuery(f)
    /\ fetchOp' = [op |-> "restaurantsData", id |-> 0, ok |-> hasCount]
    /\ UNCHANGED <<selectedCity, cityOptions, citiesLoad, loading, loadError,
                   pendingSubmissions, issued, overlap>>
    /\ UNCHANGED <<navVars, modVars>>
    /\ UNCHANGED <<engineVars, suggestVars, pureVars>>

\* RestaurantsData with hasMore computed as (to < count)
RestaurantsData_OffByOne(f, hasCount) ==
    /\ f \in InFlight /\ f.pc = "restaurants"
    /\ LET restaurantsData == RangeRows(f.filter, f.from, f.to)
           mapped == MapRows(restaurantsData)
           count  == TotalRows(f.filter)
       IN  /\ restaurants' = IF f.reset THEN mapped ELSE restaurants \o mapped
           /\ hasMore' = IF hasCount THEN f.to < count
                         ELSE Len(restaurantsData) = pageSize
           /\ page' = IF f.reset THEN 1 ELSE page + 1
    /\ inflight' = ToPendingQuery(f)
    /\ fetchOp' = [op |-> "restaurantsData", id |-> 0, ok |-> hasCount]
    /\ UNCHANGED <<selectedCity, cityOptions, citiesLoad, loading, loadError,
                   pendingSubmissions, issued, overlap>>
    /\ UNCHANGED <<navVars, modVars>>
    /\ UNCHANGED <<engineVars, suggestVars, pureVars>>

\* the restaurants query of invocation f returns its rows, with the exact
\* count (hasCount) or without it
RestaurantsData(f, hasCount) ==
    /\ f \in InFlight /\ f.pc = "restaurants"
    /\ LET restaurantsData == RangeRows(f.filter, f.from, f.to)
           mapped == MapRows(restaurantsData)
           count  == TotalRows(f.filter)
       IN  /\ restaurants' = IF f.reset THEN mapped ELSE restaurants \o mapped
           /\ hasMore' = IF hasCount THEN f.to + 1 < count
                         ELSE Len(restaurantsData) = pageSize
           /\ page' = IF f.reset THEN 1 ELSE page + 1
    /\ inflight' = ToPendingQuery(f)
    /\ fetchOp' = [op |-> "restaurantsData", id |-> 0, ok |-> hasCount]
    /\ UNCHANGED <<selectedCity, cityOptions, citiesLoad, loading, loadError,
                   pendingSubmissions, issued, overlap>>
    /\ UNCHANGED <<navVars, modVars>>
    /\ UNCHANGED <<engineVars, suggestVars, pureVars>>

\* the pending query of invocation f fails; the invocation finishes
PendingError(f) ==
    /\ f \in InFlight /\ f.pc = "pending"
    /\ loadError' = IF loadError = Null THEN "Failed to load pending submissions"
                    ELSE loadError
    /\ loading' = FALSE
    /\ inflight' = inflight (-) SetToBag({f})
    /\ fetchOp' = [op |-> "pendingError", id |-> 0, ok |-> FALSE]
    /\ UNCHANGED <<selectedCity, cityOptions, citiesLoad, restaurants, page, hasMore,
                   pendingSubmissions, issued, overlap>>
    /\ UNCHANGED <<navVars, modVars>>
    /\ UNCHANGED <<engineVars, suggestVars, pureVars>>

\* the pending query of invocation f returns its rows; the invocation finishes
PendingData(f) ==
    /\ f \in InFlight /\ f.pc = "pending"
    /\ pendingSubmissions' = PendingList(dbPending)
    /\ loading' = FALSE
    /\ inflight' = inflight (-) SetToBag({f})
    /\ fetchOp' = [op |-> "pendingData", id |-> 0, ok |-> TRUE]
    /\ UNCHANGED <<selectedCity, cityOptions, citiesLoad, loadError, restaurants, page,
                   hasMore, issued, overlap>>
    /\ UNCHANGED <<navVars, modVars>>
    /\ UNCHANGED <<engineVars, suggestVars, pureVars>>

\* fetchData() / fetchData(false): the next page is requested from the current
\* render
LoadMore ==
    /\ mounted
    /\ fetchData(FALSE, selectedCity, cityOptions, page)
    /\ fetchOp' = [op |-> "call", id |-> 0, ok |-> FALSE]
    /\ UNCHANGED <<selectedCity, cityOptions, citiesLoad, restaurants, page, hasMore,
                   pendingSubmissions>>
    /\ UNCHANGED <<navVars, modVars>>
    /\ UNCHANGED <<engineVars, suggestVars, pureVars>>

\* names the city dropdowns offer
CityNames ==
    IF Len(cityOptions) > 0
    THEN {cityOptions[i].name : i \in 1..Len(cityOptions)}
    ELSE {knownCities[i] : i \in 1..Len(knownCities)}

\* setSelectedCity(city) from a dropdown, and the [selectedCity] effect of the
\* render that follows: fetchData(true)
SelectCity(city) ==
    /\ mounted
    /\ city \in CityNames
    /\ city # selectedCity
    /\ selectedCity' = city
    /\ fetchData(TRUE, city, cityOptions, page)
    /\ fetchOp' = [op |-> "call", id |-> 0, ok |-> FALSE]
    /\ UNCHANGED <<cityOptions, citiesLoad, restaurants, page, hasMore, pendingSubmissions>>
    /\ UNCHANGED <<navVars, modVars>>
    /\ UNCHANGED <<engineVars, suggestVars, pureVars>>

\* the cities query of the mount effect fails: cityOptions stays empty
CitiesError ==
    /\ citiesLoad = "pending"
    /\ citiesLoad' = "done"
    /\ fetchOp' = [op |-> "cities", id |-> 0, ok |-> FALSE]
    /\ UNCHANGED <<selectedCity, cityOptions, loading, loadError, restaurants, page,
                   hasMore, pendingSubmissions, inflight, issued, overlap>>
    /\ UNCHANGED <<navVars, modVars>>
    /\ UNCHANGED <<engineVars, suggestVars, pureVars>>

\* the cities query returns: setCityOptions(data), and the [cityOptions.length]
\* effect of the render that follows: fetchData(true) when the list is not
\* empty
CitiesData(table) ==
    /\ citiesLoad = "pending"
    /\ citiesLoad' = "done"
    /\ cityOptions' = table
    /\ IF Len(table) > 0
       THEN fetchData(TRUE, selectedCity, table, page)
       ELSE UNCHANGED <<loading, loadError, inflight, issued, overlap>>
    /\ fetchOp' = [op |-> "cities", id |-> 0, ok |-> Len(table) > 0]
    /\ UNCHANGED <<selectedCity, restaurants, page, hasMore, pendingSubmissions>>
    /\ UNCHANGED <<navVars, modVars>>
    /\ UNCHANGED <<engineVars, suggestVars, pureVars>>

-----------------------------------------------------------------------------
(* Moderation: approveSubmission and rejectSubmission *)

\* the notices, their pending timers and the number of notices shown so far
ToastState == [list |-> toasts, timers |-> timers, next |-> toastCount]

\* setToasts and the timers that come with it
SetToasts(t) ==
    /\ toasts' = t.list
    /\ timers' = t.timers
    /\ toastCount' = t.next

\* prev.filter(t => t.id !== id) that drops the notices up to that one
WithoutToast_Upto(list, id) == SelectSeq(list, LAMBDA t : t.id > id)

\* prev.filter(t => t.id !== id)
WithoutToast(list, id) == SelectSeq(list, LAMBDA t : t.id # id)

\* showToastMessage(message, type): a notice with a fresh id is appended to
\* the toasts and its auto-dismiss timer is set.  The id is built from
\* Date.now() and Math.random(); the ids of two notices are taken to differ.
showToastMessage(t, message, type) ==
    [list   |-> Append(t.list, [id |-> t.next + 1, message |-> message, type |-> type]),
     timers |-> Append(t.timers, t.next + 1),
     next   |-> t.next + 1]

\* the notice of approve when the pending row could not be deleted (the text
\* before the backend's error message)
WarningMessage == "Warning: added to restaurants but failed to remove pending"

\* the timer of the oldest notice fires and leaves the toasts as they are
TimerFires_KeepsNotice ==
    /\ timers # <<>>
    /\ timers' = Tail(timers)
    /\ UNCHANGED <<toasts, toastCount>>
    /\ UNCHANGED <<navVars, fetchVars, dbPending, dbInserted, modOps, modCount, authVars>>
    /\ UNCHANGED <<engineVars, suggestVars, pureVars>>

\* the auto-dismiss timer of a notice fires: all timers have the same delay,
\* so the one set first fires first
TimerFires ==
    /\ timers # <<>>
    /\ toasts' = WithoutToast(toasts, Head(timers))
    /\ timers' = Tail(timers)
    /\ UNCHANGED toastCount
    /\ UNCHANGED <<navVars, fetchVars, dbPending, dbInserted, modOps, modCount, authVars>>
    /\ UNCHANGED <<engineVars, suggestVars, pureVars>>

\* notices in one behaviour of the notice machine
MaxToasts == 4

\* the notices a handler shows
Notices == {[message |-> "Submission rejected and removed.", type |-> "success"],
            [message |-> "Failed to reject", type |-> "error"]}

\* some handler calls showToastMessage(message, type)
ShowToast(notice) ==
    /\ toastCount < MaxToasts
    /\ SetToasts(showToastMessage(ToastState, notice.message, notice.type))
    /\ UNCHANGED <<navVars, fetchVars, dbPending, dbInserted, modOps, modCount, authVars>>
    /\ UNCHANGED <<engineVars, suggestVars, pureVars>>

\* the dismiss button of the notice with this id is clicked
DismissToast(id) ==
    /\ \E i \in 1..Len(toasts) : toasts[i].id = id
    /\ toasts' = WithoutToast(toasts, id)
    /\ UNCHANGED <<timers, toastCount>>
    /\ UNCHANGED <<navVars, fetchVars, dbPending, dbInserted, modOps, modCount, authVars>>
    /\ UNCHANGED <<engineVars, suggestVars, pureVars>>

\* pendingSubmissions.filter(s => s.id !== submissionId)
RECURSIVE RemoveSubmission(_, _)
RemoveSubmission(list, id) ==
    IF list = <<>> THEN <<>>
    ELSE IF Head(list).id = id THEN RemoveSubmission(Tail(list), id)
         ELSE <<Head(list)>> \o RemoveSubmission(Tail(list), id)

\* ids of a list of submissions
SubmissionIdsOf(list) == {list[i].id : i \in 1..Len(list)}

\* approveSubmission(id) up to its first await: find the submission in the
\* render's pendingSubmissions, return when absent, else issue the insert;
\* limit caps the moderation calls of one behaviour
approveSubmissionUpTo(id, limit) ==
    /\ mounted
    /\ modCount < limit
    /\ modCount' = modCount + 1
    /\ IF id \in SubmissionIdsOf(pendingSubmissions)
       THEN LET submission ==
                  pendingSubmissions[CHOOSE i \in 1..Len(pendingSubmissions) :
                      /\ pendingSubmissions[i].id = id
                      /\ \A j \in 1..(i - 1) : pendingSubmissions[j].id # id]
            IN  modOps' = modOps \cup
                    {[kind |-> "approve", n |-> modCount + 1, id |-> id, pc |-> "insert",
                      payload |-> toRestaurantInsertFromPending(submission),
                      inserted |-> <<>>,
                      city |-> selectedCity, opts |-> cityOptions]}
       ELSE UNCHANGED modOps
    /\ fetchOp' = [op |-> "approve", id |-> id,
                   ok |-> (id \in SubmissionIdsOf(pendingSubmissions))]
    /\ UNCHANGED <<dbPending, dbInserted, toastVars, authVars>>
    /\ UNCHANGED <<navVars, selectedCity, cityOptions, citiesLoad, loading, loadError,
                   restaurants, page, hasMore, pendingSubmissions, inflight, issued, overlap>>
    /\ UNCHANGED <<engineVars, suggestVars, pureVars>>

\* approveSubmission(id), one of at most MaxModOps moderation calls
approveSubmission(id) == approveSubmissionUpTo(id, MaxModOps)

\* approveSubmission(id), one of at most MaxApproves approve calls: a call
\* may start while an earlier one is still awaiting its insert or delete
approveAgain(id) == approveSubmissionUpTo(id, MaxApproves)

\* ApproveInsertError that goes on to the delete of the pending row
ApproveInsertError_Continues(m) ==
    /\ m \in modOps /\ m.kind = "approve" /\ m.pc = "insert"
    /\ modOps' = (modOps \ {m}) \cup {[m EXCEPT !.pc = "delete"]}
    /\ SetToasts(showToastMessage(ToastState, "Approve failed", "error"))
    /\ fetchOp' = [op |-> "approveInsertError", id |-> m.id, ok |-> FALSE]
    /\ UNCHANGED <<dbPending, dbInserted, modCount, authVars>>
    /\ UNCHANGED <<navVars, selectedCity, cityOptions, citiesLoad, loading, loadError,
                   restaurants, page, hasMore, pendingSubmissions, inflight, issued, overlap>>
    /\ UNCHANGED <<engineVars, suggestVars, pureVars>>

\* the insert of approve m fails: an error notice, and approve returns
ApproveInsertError(m) ==
    /\ m \in modOps /\ m.kind = "approve" /\ m.pc = "insert"
    /\ modOps' = modOps \ {m}
    /\ SetToasts(showToastMessage(ToastState, "Approve failed", "error"))
    /\ fetchOp' = [op |-> "approveInsertError", id |-> m.id, ok |-> FALSE]
    /\ UNCHANGED <<dbPending, dbInserted, modCount, authVars>>
    /\ UNCHANGED <<navVars, selectedCity, cityOptions, citiesLoad, loading, loadError,
                   restaurants, page, hasMore, pendingSubmissions, inflight, issued, overlap>>
    /\ UNCHANGED <<engineVars, suggestVars, pureVars>>

\* the insert of approve m succeeds and returns the inserted row; the delete of
\* the pending row is issued
ApproveInsertOk(m) ==
    /\ m \in modOps /\ m.kind = "approve" /\ m.pc = "insert"
    /\ modOps' = (modOps \ {m}) \cup
           {[m EXCEPT !.pc = "delete", !.inserted = <<InsertedRow(m.payload, m.id)>>]}
    /\ dbInserted' = dbInserted (+) SetToBag({m.id})
    /\ fetchOp' = [op |-> "approveInsertOk", id |-> m.id, ok |-> TRUE]
    /\ UNCHANGED <<dbPending, modCount, toastVars, authVars>>
    /\ UNCHANGED <<navVars, selectedCity, cityOptions, citiesLoad, loading, loadError,
                   restaurants, page, hasMore, pendingSubmissions, inflight, issued, overlap>>
    /\ UNCHANGED <<engineVars, suggestVars, pureVars>>

\* ApproveDeleteDone that returns after the warning when the delete failed
ApproveDeleteDone_Rollback(m, deleted) ==
    /\ m \in modOps /\ m.kind = "approve" /\ m.pc = "delete"
    /\ dbPending' = IF deleted THEN dbPending \ {m.id} ELSE dbPending
    /\ restaurants' = IF deleted THEN restaurants \o <<mapRestaurantRow(m.inserted[1])>>
                      ELSE restaurants
    /\ pendingSubmissions' = IF deleted THEN RemoveSubmission(pendingSubmissions, m.id)
                             ELSE pendingSubmissions
    /\ fetchData(TRUE, m.city, m.opts, page)
    /\ modOps' = modOps \ {m}
    /\ SetToasts(IF deleted
                 THEN showToastMessage(ToastState,
                                       "Submission approved and added to listings!", "success")
                 ELSE showToastMessage(ToastState, WarningMessage, "error"))
    /\ fetchOp' = [op |-> "approveDone", id |-> m.id, ok |-> deleted]
    /\ UNCHANGED <<dbInserted, modCount, authVars>>
    /\ UNCHANGED <<navVars, selectedCity, cityOptions, citiesLoad, page, hasMore>>
    /\ UNCHANGED <<engineVars, suggestVars, pureVars>>

\* the delete of approve m returns (deleted or failed with a warning notice);
\* the rest of approveSubmission runs: the optimistic updates and fetchData(true)
\* from the closure of the render that invoked approve
ApproveDeleteDone(m, deleted) ==
    /\ m \in modOps /\ m.kind = "approve" /\ m.pc = "delete"
    /\ dbPending' = IF deleted THEN dbPending \ {m.id} ELSE dbPending
    /\ restaurants' = restaurants \o <<mapRestaurantRow(m.inserted[1])>>
    /\ pendingSubmissions' = RemoveSubmission(pendingSubmissions, m.id)
    /\ fetchData(TRUE, m.city, m.opts, page)
    /\ modOps' = modOps \ {m}
    /\ SetToasts(showToastMessage(
                     IF deleted THEN ToastState
                     ELSE showToastMessage(ToastState, WarningMessage, "error"),
                     "Submission approved and added to listings!", "success"))
    /\ fetchOp' = [op |-> "approveDone", id |-> m.id, ok |-> deleted]
    /\ UNCHANGED <<dbInserted, modCount, authVars>>
    /\ UNCHANGED <<navVars, selectedCity, cityOptions, citiesLoad, page, hasMore>>
    /\ UNCHANGED <<engineVars, suggestVars, pureVars>>

\* rejectSubmission(id) up to its await: the delete of the pending row is issued
rejectSubmission(id) ==
    /\ mounted
    /\ modCount < MaxModOps
    /\ modCount' = modCount + 1
    /\ modOps' = modOps \cup
           {[kind |-> "reject", n |-> modCount + 1, id |-> id, pc |-> "delete",
             payload |-> toRestaurantInsertFromPending(mapPendingRow(PendingRow(id))),
             inserted |-> <<>>, city |-> selectedCity, opts |-> cityOptions]}
    /\ fetchOp' = [op |-> "reject", id |-> id, ok |-> FALSE]
    /\ UNCHANGED <<dbPending, dbInserted, toastVars, authVars>>
    /\ UNCHANGED <<navVars, selectedCity, cityOptions, citiesLoad, loading, loadError,
                   restaurants, page, hasMore, pendingSubmissions, inflight, issued, overlap>>
    /\ UNCHANGED <<engineVars, suggestVars, pureVars>>

\* the delete of reject m fails: an error notice, and reject returns
RejectDeleteError(m) ==
    /\ m \in modOps /\ m.kind = "reject" /\ m.pc = "delete"
    /\ modOps' = modOps \ {m}
    /\ SetToasts(showToastMessage(ToastState, "Failed to reject", "error"))
    /\ fetchOp' = [op |-> "rejectError", id |-> m.id, ok |-> FALSE]
    /\ UNCHANGED <<dbPending, dbInserted, modCount, authVars>>
    /\ UNCHANGED <<navVars, selectedCity, cityOptions, citiesLoad, loading, loadError,
                   restaurants, page, hasMore, pendingSubmissions, inflight, issued, overlap>>
    /\ UNCHANGED <<engineVars, suggestVars, pureVars>>

\* RejectDeleteOk that empties the local pending list
RejectDeleteOk_Clears(m) ==
    /\ m \in modOps /\ m.kind = "reject" /\ m.pc = "delete"
    /\ dbPending' = dbPending \ {m.id}
    /\ pendingSubmissions' = <<>>
    /\ fetchData(TRUE, m.city, m.opts, page)
    /\ modOps' = modOps \ {m}
    /\ SetToasts(showToastMessage(ToastState, "Submission rejected and removed.", "success"))
    /\ fetchOp' = [op |-> "rejectDone", id |-> m.id, ok |-> TRUE]
    /\ UNCHANGED <<dbInserted, modCount, authVars>>
    /\ UNCHANGED <<navVars, selectedCity, cityOptions, citiesLoad, restaurants, page, hasMore>>
    /\ UNCHANGED <<engineVars, suggestVars, pureVars>>

\* the delete of reject m succeeds: the submission leaves the local list and
\* fetchData(true) runs from the closure of the render that invoked reject
RejectDeleteOk(m) ==
    /\ m \in modOps /\ m.kind = "reject" /\ m.pc = "delete"
    /\ dbPending' = dbPending \ {m.id}
    /\ pendingSubmissions' = RemoveSubmission(pendingSubmissions, m.id)
    /\ fetchData(TRUE, m.city, m.opts, page)
    /\ modOps' = modOps \ {m}
    /\ SetToasts(showToastMessage(ToastState, "Submission rejected and removed.", "success"))
    /\ fetchOp' = [op |-> "rejectDone", id |-> m.id, ok |-> TRUE]
    /\ UNCHANGED <<dbInserted, modCount, authVars>>
    /\ UNCHANGED <<navVars, selectedCity, cityOptions, citiesLoad, restaurants, page, hasMore>>
    /\ UNCHANGED <<engineVars, suggestVars, pureVars>>

-----------------------------------------------------------------------------
(* Auth: the onAuthStateChange callback and its role lookup *)

\* session?.user when there is no session
NoUser == "<none>"

\* the users that sign in
Users == {"alice", "bob"}

\* the role column of the users table
UserRole(user) == IF user = "alice" THEN "admin" ELSE "member"

\* the auth callback up to its await: without a user isAdmin is cleared, with
\* one the users-table query for it is issued
onAuthStateChange(user) ==
    /\ mounted
    /\ authCount < MaxAuthEvents
    /\ authCount' = authCount + 1
    /\ sessionUser' = user
    /\ IF user = NoUser
       THEN /\ isAdmin' = FALSE
            /\ UNCHANGED roleLookups
       ELSE /\ roleLookups' = roleLookups (+) SetToBag({user})
            /\ UNCHANGED isAdmin
    /\ UNCHANGED <<navVars, fetchVars, dbPending, dbInserted, modOps, modCount, toastVars>>
    /\ UNCHANGED <<engineVars, suggestVars, pureVars>>

\* the users-table query for user fails (or finds no row): isAdmin is left alone
RoleLookupError(user) ==
    /\ BagIn(user, roleLookups)
    /\ roleLookups' = roleLookups (-) SetToBag({user})
    /\ UNCHANGED <<isAdmin, authCount, sessionUser>>
    /\ UNCHANGED <<navVars, fetchVars, dbPending, dbInserted, modOps, modCount, toastVars>>
    /\ UNCHANGED <<engineVars, suggestVars, pureVars>>

\* the users-table query for user returns its row
RoleLookupData(user) ==
    /\ BagIn(user, roleLookups)
    /\ roleLookups' = roleLookups (-) SetToBag({user})
    /\ isAdmin' = (UserRole(user) = "admin")
    /\ UNCHANGED <<authCount, sessionUser>>
    /\ UNCHANGED <<navVars, fetchVars, dbPending, dbInserted, modOps, modCount, toastVars>>
    /\ UNCHANGED <<engineVars, suggestVars, pureVars>>

-----------------------------------------------------------------------------
(* The filter / sort engine *)

\* the characters of the class [-...] in canonicalDiet's last replace: the
\* hyphen and the four other characters the source file holds there, written
\* by code point
DashClass == {"-", "U+00E2", "U+20AC", "U+201C", "U+201D"}

\* s.replace(/[-...]/g, '-')
NormaliseDashes(s) == [i \in 1..Len(s) |-> IF s[i] \in DashClass THEN "-" ELSE s[i]]

\* the synonym map of canonicalDiet
DietMap ==
    << <<<<"s","e","e","d"," ","o","i","l"," ","f","r","e","e">>,
         <<"s","e","e","d","-","o","i","l"," ","f","r","e","e">>>>,
       <<<<"s","e","e","d","-","o","i","l","-","f","r","e","e">>,
         <<"s","e","e","d","-","o","i","l"," ","f","r","e","e">>>>,
       <<<<"n","o"," ","s","e","e","d"," ","o","i","l","s">>,
         <<"s","e","e","d","-","o","i","l"," ","f","r","e","e">>>>,
       <<<<"n","o"," ","s","e","e","d"," ","o","i","l">>,
         <<"s","e","e","d","-","o","i","l"," ","f","r","e","e">>>>,
       <<<<"n","o"," ","s","e","e","d","-","o","i","l","s">>,
         <<"s","e","e","d","-","o","i","l"," ","f","r","e","e">>>>,
       <<<<"n","o"," ","s","e","e","d","-","o","i","l">>,
         <<"s","e","e","d","-","o","i","l"," ","f","r","e","e">>>>,
       <<<<"n","o","-","i","n","d","u","s","t","r","i","a","l","-","s","e","e","d","-","o","i","l","s">>,
         <<"s","e","e","d","-","o","i","l"," ","f","r","e","e">>>>,
       <<<<"n","o","-","i","n","d","u","s","t","r","i","a","l","-","s","e","e","d","-","o","i","l">>,
         <<"s","e","e","d","-","o","i","l"," ","f","r","e","e">>>>,
       <<<<"s","e","e","d"," ","o","i","l","-","f","r","e","e">>,
         <<"s","e","e","d","-","o","i","l"," ","f","r","e","e">>>>,
       <<<<"s","e","e","d","-","o","i","l","-"," ","f","r","e","e">>,
         <<"s","e","e","d","-","o","i","l"," ","f","r","e","e">>>>,
       <<<<"p","l","a","n","t"," ","b","a","s","e","d">>,
         <<"p","l","a","n","t","-","b","a","s","e","d">>>>,
       <<<<"l","o","w"," ","f","o","d","m","a","p">>,
         <<"l","o","w"," ","f","o","d","m","a","p">>>>,
       <<<<"d","i","a","b","e","t","i","c"," ","f","r","i","e","n","d","l","y">>,
         <<"d","i","a","b","e","t","i","c","-","f","r","i","e","n","d","l","y">>>>,
       <<<<"h","e","a","r","t"," ","h","e","a","l","t","h","y">>,
         <<"h","e","a","r","t","-","h","e","a","l","t","h","y">>>>,
       <<<<"g","l","u","t","e","n"," ","f","r","e","e">>,
         <<"g","l","u","t","e","n","-","f","r","e","e">>>>,
       <<<<"d","a","i","r","y"," ","f","r","e","e">>,
         <<"d","a","i","r","y","-","f","r","e","e">>>>,
       <<<<"n","u","t"," ","f","r","e","e">>,
         <<"n","u","t","-","f","r","e","e">>>>,
       <<<<"s","o","y"," ","f","r","e","e">>,
         <<"s","o","y","-","f","r","e","e">>>>,
       <<<<"e","g","g"," ","f","r","e","e">>,
         <<"e","g","g","-","f","r","e","e">>>>,
       <<<<"s","h","e","l","l","f","i","s","h"," ","f","r","e","e">>,
         <<"s","h","e","l","l","f","i","s","h","-","f","r","e","e">>>>,
       <<<<"s","e","s","a","m","e"," ","f","r","e","e">>,
         <<"s","e","s","a","m","e","-","f","r","e","e">>>>,
       <<<<"n","o"," ","a","d","d","e","d"," ","s","u","g","a","r">>,
         <<"n","o"," ","a","d","d","e","d"," ","s","u","g","a","r">>>>,
       <<<<"n","o"," ","a","r","t","i","f","i","c","i","a","l"," ","s","w","e","e","t","e","n","e","r","s">>,
         <<"n","o"," ","a","r","t","i","f","i","c","i","a","l"," ","s","w","e","e","t","e","n","e","r","s">>>>,
       <<<<"o","r","g","a","n","i","c"," ","i","n","g","r","e","d","i","e","n","t","s">>,
         <<"o","r","g","a","n","i","c"," ","i","n","g","r","e","d","i","e","n","t","s">>>>,
       <<<<"l","o","c","a","l","l","y"," ","s","o","u","r","c","e","d">>,
         <<"l","o","c","a","l","l","y"," ","s","o","u","r","c","e","d">>>> >>

\* canonicalDiet: '' for an empty value; else trim, lowercase, collapse white
\* space, normalise dashes, and look the result up in the synonym map
canonicalDiet(value) ==
    IF value \in NonStrings THEN TypeError
    ELSE IF value = <<>> THEN <<>>
    ELSE LET v == NormaliseDashes(CollapseSpaces(ToLowerCase(Trim(value))))
             found == Lookup(DietMap, v)
         IN  IF found # <<>> THEN found ELSE v

\* the synonym list of getCity, in its order
CitySynonyms ==
    << <<<<"n","y","c">>, <<"N","e","w"," ","Y","o","r","k">>>>,
       <<<<"n","e","w"," ","y","o","r","k"," ","c","i","t","y">>, <<"N","e","w"," ","Y","o","r","k">>>>,
       <<<<"n","e","w"," ","y","o","r","k">>, <<"N","e","w"," ","Y","o","r","k">>>>,
       <<<<"l","o","s"," ","a","n","g","e","l","e","s">>, <<"L","o","s"," ","A","n","g","e","l","e","s">>>>,
       <<<<"l","a">>, <<"L","o","s"," ","A","n","g","e","l","e","s">>>>,
       <<<<"s","a","n"," ","f","r","a","n","c","i","s","c","o">>, <<"S","a","n"," ","F","r","a","n","c","i","s","c","o">>>>,
       <<<<"s","a","n"," ","f","r","a","n">>, <<"S","a","n"," ","F","r","a","n","c","i","s","c","o">>>>,
       <<<<"s","f">>, <<"S","a","n"," ","F","r","a","n","c","i","s","c","o">>>>,
       <<<<"h","o","u","s","t","o","n">>, <<"H","o","u","s","t","o","n">>>>,
       <<<<"a","u","s","t","i","n">>, <<"A","u","s","t","i","n">>>> >>

\* getCity: the canonical city of a restaurant with a non-blank city, else the
\* first synonym, then the first known city, found in its address and
\* neighborhood, else ''
getCity(r) ==
    IF Trim(r.city) # <<>> THEN canonicalCity(r.city)
    ELSE LET text == ToLowerCase(r.address \o <<" ">> \o r.neighborhood)
             syn  == {i \in 1..Len(CitySynonyms) : Includes(text, CitySynonyms[i][1])}
             known == {i \in 1..Len(knownCities) :
                          Includes(text, ToLowerCase(knownCities[i]))}
         IN  IF syn # {} THEN CitySynonyms[CHOOSE i \in syn : \A j \in syn : i <= j][2]
             ELSE IF known # {}
                  THEN knownCities[CHOOSE i \in known : \A j \in known : i <= j]
                  ELSE <<>>

\* the values of sortBy
SortKeys == {"rating", "name", "recent", "price", "verified", "updated"}

\* the comparator of filteredRestaurants with rating ascending
Compare_RatingAscending(key, a, b) ==
    CASE key = "rating"   -> a.rating - b.rating
      [] key = "price"    -> Len(a.priceRange) - Len(b.priceRange)
      [] key = "verified" -> (IF b.verified THEN 1 ELSE 0) - (IF a.verified THEN 1 ELSE 0)
      [] key = "updated"  -> b.lastUpdated - a.lastUpdated
      [] OTHER            -> 0

\* the comparator of filteredRestaurants: negative when a goes first.  rating
\* is in tenths, lastUpdated is the day number of its date
Compare(key, a, b) ==
    CASE key = "rating"   -> b.rating - a.rating
      [] key = "price"    -> Len(a.priceRange) - Len(b.priceRange)
      [] key = "verified" -> (IF b.verified THEN 1 ELSE 0) - (IF a.verified THEN 1 ELSE 0)
      [] key = "updated"  -> b.lastUpdated - a.lastUpdated
      [] OTHER            -> 0

\* x put into a sorted sequence, after every element that does not go after it
RECURSIVE InsertSorted(_, _, _)
InsertSorted(key, sorted, x) ==
    IF sorted = <<>> THEN <<x>>
    ELSE IF Compare(key, x, Head(sorted)) < 0 THEN <<x>> \o sorted
         ELSE <<Head(sorted)>> \o InsertSorted(key, Tail(sorted), x)

\* Array.prototype.sort with the comparator of key: a stable sort
RECURSIVE StableSort(_, _)
StableSort(key, arr) ==
    IF arr = <<>> THEN <<>>
    ELSE InsertSorted(key, StableSort(key, SubSeq(arr, 1, Len(arr) - 1)), arr[Len(arr)])

\* arr.sort(...) on the array held under the name target: sorts it in place
ArraySort(heap, target, key) == [heap EXCEPT ![target] = StableSort(key, heap[target])]

\* PassesFilter without the oil criterion
PassesFilter_NoOils(r, city, query, filters) ==
    LET q == ToLowerCase(query)
        matchesCity == getCity(r) = canonicalCity(city)
        matchesSearch == \/ Includes(ToLowerCase(r.name), q)
                         \/ Includes(ToLowerCase(r.cuisine), q)
                         \/ Includes(ToLowerCase(r.neighborhood), q)
        dbDietSet == {canonicalDiet(r.dietaryTags[i]) : i \in 1..Len(r.dietaryTags)}
        selectedDiet == [i \in 1..Len(filters.diet) |-> canonicalDiet(filters.diet[i])]
        matchesDiet == \/ Len(selectedDiet) = 0
                       \/ \E i \in 1..Len(selectedDiet) : selectedDiet[i] \in dbDietSet
        matchesOils == TRUE
        matchesNeighborhood == \/ filters.neighborhood = <<>>
                               \/ r.neighborhood = filters.neighborhood
        matchesPrice == \/ filters.priceRange = <<>>
                        \/ r.priceRange = filters.priceRange
        matchesVerified == ~filters.verified \/ r.verified
    IN  /\ matchesCity /\ matchesSearch /\ matchesDiet /\ matchesOils
        /\ matchesNeighborhood /\ matchesPrice /\ matchesVerified

\* the predicate of restaurants.filter(...) in filteredRestaurants
PassesFilter(r, city, query, filters) ==
    LET q == ToLowerCase(query)
        matchesCity == getCity(r) = canonicalCity(city)
        matchesSearch == \/ Includes(ToLowerCase(r.name), q)
                         \/ Includes(ToLowerCase(r.cuisine), q)
                         \/ Includes(ToLowerCase(r.neighborhood), q)
        dbDietSet == {canonicalDiet(r.dietaryTags[i]) : i \in 1..Len(r.dietaryTags)}
        selectedDiet == [i \in 1..Len(filters.diet) |-> canonicalDiet(filters.diet[i])]
        matchesDiet == \/ Len(selectedDiet) = 0
                       \/ \E i \in 1..Len(selectedDiet) : selectedDiet[i] \in dbDietSet
        matchesOils == \/ Len(filters.oils) = 0
                       \/ \E i \in 1..Len(filters.oils) :
                             \E j \in 1..Len(r.oilsUsed) : r.oilsUsed[j] = filters.oils[i]
        matchesNeighborhood == \/ filters.neighborhood = <<>>
                               \/ r.neighborhood = filters.neighborhood
        matchesPrice == \/ filters.priceRange = <<>>
                        \/ r.priceRange = filters.priceRange
        matchesVerified == ~filters.verified \/ r.verified
    IN  /\ matchesCity /\ matchesSearch /\ matchesDiet /\ matchesOils
        /\ matchesNeighborhood /\ matchesPrice /\ matchesVerified

\* the callback of filteredRestaurants sorting the collection itself
filteredRestaurantsFn_SortsSource(rs, city, query, filters, key) ==
    LET pass(r) == PassesFilter(r, city, query, filters)
        h1 == ArraySort([restaurants |-> rs, filtered |-> <<>>], "restaurants", key)
        h2 == [h1 EXCEPT !.filtered = SelectSeq(h1.restaurants, pass)]
    IN  [restaurants |-> h2.restaurants, value |-> h2.filtered]

\* the callback of the filteredRestaurants memo: filter into a new array, sort
\* that array in place; returns the list and the collection as it is afterwards
filteredRestaurantsFn(rs, city, query, filters, key) ==
    LET pass(r) == PassesFilter(r, city, query, filters)
        h1 == [restaurants |-> rs, filtered |-> SelectSeq(rs, pass)]
        h2 == ArraySort(h1, "filtered", key)
    IN  [restaurants |-> h2.restaurants, value |-> h2.filtered]

\* the callback of the homeFeatured memo: the restaurants of the city, a copy
\* of them sorted by rating, its first three
homeFeaturedFn(rs, city) ==
    LET inCityTest(r) == getCity(r) = canonicalCity(city)
        h1 == [restaurants |-> rs, inCity |-> SelectSeq(rs, inCityTest), sorted |-> <<>>]
        h2 == [h1 EXCEPT !.sorted = h1.inCity]
        h3 == ArraySort(h2, "sorted", "rating")
        n  == IF Len(h3.sorted) < 3 THEN Len(h3.sorted) ELSE 3
    IN  [restaurants |-> h3.restaurants, value |-> SubSeq(h3.sorted, 1, n)]

Alba ==
    [id |-> 1,
     name |-> <<"A","l","b","a">>,
     cuisine |-> <<"I","t","a","l","i","a","n">>,
     neighborhood |-> <<"S","o","H","o">>,
     address |-> <<"1"," ","P","r","i","n","c","e"," ","S","t">>,
     city |-> <<"N","Y","C">>,
     dietaryTags |-> <<<<"K","e","t","o">>>>,
     oilsUsed |-> <<<<"O","l","i","v","e"," ","O","i","l">>>>,
     priceRange |-> <<"$","$">>,
     verified |-> TRUE,
     rating |-> 42,
     lastUpdated |-> 3]

Basil ==
    [id |-> 2,
     name |-> <<"B","a","s","i","l">>,
     cuisine |-> <<"T","h","a","i">>,
     neighborhood |-> <<"C","h","e","l","s","e","a">>,
     address |-> <<"2"," ","N","i","n","t","h"," ","A","v","e">>,
     city |-> <<"N","Y","C">>,
     dietaryTags |-> <<<<"V","e","g","a","n">>, <<"G","l","u","t","e","n"," ","F","r","e","e">>>>,
     oilsUsed |-> <<<<"C","a","n","o","l","a"," ","O","i","l">>>>,
     priceRange |-> <<"$">>,
     verified |-> FALSE,
     rating |-> 49,
     lastUpdated |-> 1]

Cava ==
    [id |-> 3,
     name |-> <<"C","a","v","a">>,
     cuisine |-> <<"G","r","e","e","k">>,
     neighborhood |-> <<"V","e","n","i","c","e">>,
     address |-> <<"3"," ","O","c","e","a","n"," ","A","v","e">>,
     city |-> <<"L","A">>,
     dietaryTags |-> <<<<"K","e","t","o">>>>,
     oilsUsed |-> <<<<"O","l","i","v","e"," ","O","i","l">>>>,
     priceRange |-> <<"$","$","$">>,
     verified |-> TRUE,
     rating |-> 30,
     lastUpdated |-> 2]

Diner ==
    [id |-> 4,
     name |-> <<"S","o","h","o"," ","D","i","n","e","r">>,
     cuisine |-> <<"A","m","e","r","i","c","a","n">>,
     neighborhood |-> <<"S","o","H","o">>,
     address |-> <<"9"," ","M","a","i","n"," ","S","t",","," ","N","e","w"," ","Y","o","r","k">>,
     city |-> <<>>,
     dietaryTags |-> <<<<"g","l","u","t","e","n","-","f","r","e","e">>>>,
     oilsUsed |-> <<<<"T","a","l","l","o","w">>>>,
     priceRange |-> <<"$","$">>,
     verified |-> FALSE,
     rating |-> 42,
     lastUpdated |-> 3]

Ember ==
    [id |-> 5,
     name |-> <<"E","m","b","e","r">>,
     cuisine |-> <<"G","r","i","l","l">>,
     neighborhood |-> <<"C","h","e","l","s","e","a">>,
     address |-> <<"5"," ","T","e","n","t","h"," ","A","v","e">>,
     city |-> <<"N","e","w"," ","Y","o","r","k"," ","C","i","t","y">>,
     dietaryTags |-> <<<<"P","a","l","e","o">>>>,
     oilsUsed |-> <<<<"T","a","l","l","o","w">>, <<"O","l","i","v","e"," ","O","i","l">>>>,
     priceRange |-> <<"$","$","$","$">>,
     verified |-> TRUE,
     rating |-> 30,
     lastUpdated |-> 4]

\* collections the engine is run on, in fetch order
Collections ==
    { <<>>,
      <<Alba, Basil, Cava>>,
      <<Alba, Basil, Ember>>,
      <<Diner, Alba, Basil>>,
      <<Ember, Cava, Diner, Alba>>,
      <<Basil, Ember, Alba, Diner, Cava>>,
      <<Alba, Diner, Ember, Basil>>,
      <<Cava>> }

\* search queries the engine is run with
Queries_Search == {<<>>, <<"s","o">>, <<"T","H","A","I">>}

\* filter selections the engine is run with
FilterInputs ==
    { NoFilters,
      [NoFilters EXCEPT !.diet = <<<<"K","e","t","o">>>>],
      [NoFilters EXCEPT !.diet = <<<<"G","l","u","t","e","n","-","F","r","e","e">>>>],
      [NoFilters EXCEPT !.diet = <<<<"V","e","g","a","n">>, <<"k","e","t","o">>>>],
      [NoFilters EXCEPT !.oils = <<<<"O","l","i","v","e"," ","O","i","l">>>>],
      [NoFilters EXCEPT !.oils = <<<<"o","l","i","v","e"," ","o","i","l">>>>],
      [NoFilters EXCEPT !.neighborhood = <<"S","o","H","o">>],
      [NoFilters EXCEPT !.neighborhood = <<"s","o","h","o">>],
      [NoFilters EXCEPT !.priceRange = <<"$","$">>],
      [NoFilters EXCEPT !.verified = TRUE],
      [NoFilters EXCEPT !.diet = <<<<"K","e","t","o">>>>, !.verified = TRUE,
                        !.priceRange = <<"$","$">>],
      [NoFilters EXCEPT !.oils = <<<<"T","a","l","l","o","w">>, <<"C","a","n","o","l","a"," ","O","i","l">>>>,
                        !.neighborhood = <<"C","h","e","l","s","e","a">>] }

\* the inputs of the engine are drawn; nothing else has happened
InitFilter ==
    /\ InitView /\ hash = <<>> /\ stored = "null"
    /\ InitListing
    /\ InitModeration
    /\ InitSuggest
    /\ InitPure
    /\ restaurants \in Collections
    /\ selectedCity \in {NYC, LosAngeles}
    /\ searchQuery \in Queries_Search
    /\ selectedFilters \in FilterInputs
    /\ sortBy \in SortKeys
    /\ filteredRestaurants = <<>>
    /\ homeFeatured = <<>>
    /\ renders = 0

\* a render computes the two memoised lists
RenderLists ==
    /\ renders < MaxRenders
    /\ renders' = renders + 1
    /\ LET visible == filteredRestaurantsFn(restaurants, selectedCity, searchQuery,
                                            selectedFilters, sortBy)
           featured == homeFeaturedFn(visible.restaurants, selectedCity)
       IN  /\ filteredRestaurants' = visible.value
           /\ homeFeatured' = featured.value
           /\ restaurants' = featured.restaurants
    /\ UNCHANGED <<searchQuery, selectedFilters, sortBy>>
    /\ UNCHANGED <<navVars, selectedCity, cityOptions, citiesLoad, loading, loadError, page,
                   hasMore, pendingSubmissions, inflight, issued, overlap, fetchOp>>
    /\ UNCHANGED <<modVars, suggestVars, pureVars>>

-----------------------------------------------------------------------------
(* The canonicalisers applied to drawn inputs *)

\* how many times in a row a canonicaliser is applied to its own result
MaxApplications == 2

\* city texts: the keys and the values of the synonym map, spellings with
\* other case and surrounding white space, unknown cities, blank texts, and
\* names of members of Object.prototype
CityInputs ==
    { <<"n","y","c">>,
      <<"n","e","w"," ","y","o","r","k">>,
      <<"n","e","w"," ","y","o","r","k"," ","c","i","t","y">>,
      <<"l","o","s"," ","a","n","g","e","l","e","s">>,
      <<"l","a">>,
      <<"s","a","n"," ","f","r","a","n","c","i","s","c","o">>,
      <<"s","f">>,
      <<"s","a","n"," ","f","r","a","n">>,
      <<"h","o","u","s","t","o","n">>,
      <<"a","u","s","t","i","n">>,
      <<"N","e","w"," ","Y","o","r","k">>,
      <<"L","o","s"," ","A","n","g","e","l","e","s">>,
      <<"S","a","n"," ","F","r","a","n","c","i","s","c","o">>,
      <<"H","o","u","s","t","o","n">>,
      <<"A","u","s","t","i","n">>,
      <<" "," ","N","Y","C"," ">>,
      <<"L","A">>,
      <<"\t","s","a","n"," ","F","r","a","n"," ">>,
      <<"B","o","s","t","o","n">>,
      <<" ","B","o","s","t","o","n"," ">>,
      <<"n","e","w"," "," ","y","o","r","k">>,
      <<>>,
      <<" "," "," ">>,
      <<"c","o","n","s","t","r","u","c","t","o","r">>,
      <<" ","C","o","n","s","t","r","u","c","t","o","r">>,
      <<"_","_","p","r","o","t","o","_","_">> }

\* dietary tag texts, chosen likewise
DietInputs ==
    { <<"s","e","e","d"," ","o","i","l"," ","f","r","e","e">>,
      <<"s","e","e","d","-","o","i","l","-","f","r","e","e">>,
      <<"n","o"," ","s","e","e","d"," ","o","i","l","s">>,
      <<"s","e","e","d","-","o","i","l","-"," ","f","r","e","e">>,
      <<"p","l","a","n","t"," ","b","a","s","e","d">>,
      <<"l","o","w"," ","f","o","d","m","a","p">>,
      <<"g","l","u","t","e","n"," ","f","r","e","e">>,
      <<"n","o"," ","a","d","d","e","d"," ","s","u","g","a","r">>,
      <<"l","o","c","a","l","l","y"," ","s","o","u","r","c","e","d">>,
      <<"s","e","e","d","-","o","i","l"," ","f","r","e","e">>,
      <<"p","l","a","n","t","-","b","a","s","e","d">>,
      <<"g","l","u","t","e","n","-","f","r","e","e">>,
      <<"d","i","a","b","e","t","i","c","-","f","r","i","e","n","d","l","y">>,
      <<"h","e","a","r","t","-","h","e","a","l","t","h","y">>,
      <<"K","e","t","o">>,
      <<" ","G","l","u","t","e","n"," "," ","F","r","e","e"," ">>,
      <<"S","e","e","d","U+20AC","O","i","l","U+20AC","F","r","e","e">>,
      <<"P","L","A","N","T","\t","B","A","S","E","D">>,
      <<"p","a","l","e","o"," ">>,
      <<>>,
      <<" "," ">>,
      <<"C","o","n","s","t","r","u","c","t","o","r">>,
      <<"_","_","p","r","o","t","o","_","_"," ">> }

\* the canonicaliser named fn
Canonical(fn, value) ==
    IF fn = "canonicalCity" THEN canonicalCity(value) ELSE canonicalDiet(value)

\* an input is drawn for one of the two canonicalisers; nothing else has
\* happened
InitCanon ==
    /\ InitView /\ hash = <<>> /\ stored = "null"
    /\ InitListing
    /\ selectedCity = NewYork
    /\ restaurants = <<>>
    /\ InitModeration
    /\ InitEngine
    /\ InitSuggest
    /\ raw \in {[fn |-> "canonicalCity", value |-> x] : x \in CityInputs}
              \cup {[fn |-> "canonicalDiet", value |-> x] : x \in DietInputs}
    /\ normalised = <<>>

\* the canonicaliser is applied to the input, then to its own last result;
\* normalised lists the successive results
ApplyCanonical ==
    /\ Len(normalised) < MaxApplications
    /\ normalised' = Append(normalised,
                            Canonical(raw.fn, IF normalised = <<>> THEN raw.value
                                              ELSE normalised[Len(normalised)]))
    /\ UNCHANGED raw
    /\ UNCHANGED <<navVars, fetchVars, modVars, engineVars, suggestVars>>

-----------------------------------------------------------------------------
(* Normalisation of the verification fields of a backend row *)

\* a null or missing text column of a row
NullText == <<"<null>">>

\* the values a row holds in its verified column, and Boolean(value)
JsValues == {"true", "false", "null"}

Boolean(value) == value = "true"

CrunchTeamVisited == <<"C","r","u","n","c","h"," ","T","e","a","m"," ","V","i","s","i","t","e","d">>
CrunchTeamCalled == <<"C","r","u","n","c","h"," ","T","e","a","m"," ","C","a","l","l","e","d">>
OwnerSubmitted == <<"O","w","n","e","r"," ","S","u","b","m","i","t","t","e","d">>

\* the keywords of a visit and of a call, as mapRestaurantRow and
\* getVerifyLabel both list them
VisitedKeywords ==
    << <<"c","r","u","n","c","h"," ","t","e","a","m"," ","v","i","s","i","t","e","d">>,
       <<"v","i","s","i","t","e","d">>,
       <<"v","i","s","i","t">>,
       <<"s","i","t","e"," ","v","i","s","i","t">>,
       <<"i","n"," ","p","e","r","s","o","n">>,
       <<"i","n","-","p","e","r","s","o","n">>,
       <<"t","e","a","m"," ","v","i","s","i","t","e","d">> >>

CalledKeywords ==
    << <<"c","r","u","n","c","h"," ","t","e","a","m"," ","c","a","l","l","e","d">>,
       <<"c","a","l","l","e","d">>,
       <<"c","a","l","l">>,
       <<"p","h","o","n","e">>,
       <<"p","h","o","n","e"," ","c","a","l","l">>,
       <<"p","h","o","n","e","-","c","a","l","l">>,
       <<"p","h","o","n","e"," ","v","e","r","i","f","i","e","d">>,
       <<"p","h","o","n","e","-","v","e","r","i","f","i","e","d">>,
       <<"c","a","l","l","e","d"," ","b","y"," ","c","r","u","n","c","h">>,
       <<"t","e","a","m"," ","c","a","l","l","e","d">> >>

\* keywords.some(t => m.includes(t))
SomeIncluded(keywords, m) == \E i \in 1..Len(keywords) : Includes(m, keywords[i])

\* the verificationMethod field of mapRestaurantRow: null for a null or empty
\* column, else the class of the trimmed, lowercased text
verificationMethod(column) ==
    IF column = NullText \/ column = <<>> THEN NullText
    ELSE LET m == ToLowerCase(Trim(column))
         IN  IF SomeIncluded(VisitedKeywords, m) THEN CrunchTeamVisited
             ELSE IF SomeIncluded(CalledKeywords, m) THEN CrunchTeamCalled
             ELSE OwnerSubmitted

VerifiedByCrunch == <<"V","e","r","i","f","i","e","d"," ","B","y"," ","C","r","u","n","c","h">>

\* getVerifyLabel with the call keywords left out
getVerifyLabel_VisitOnly(method) ==
    LET m == ToLowerCase(Trim(IF method = NullText THEN <<>> ELSE method))
    IN  IF m = <<>> THEN <<>>
        ELSE IF SomeIncluded(VisitedKeywords, m) THEN VerifiedByCrunch
             ELSE <<>>

\* getVerifyLabel
getVerifyLabel(method) ==
    LET m == ToLowerCase(Trim(IF method = NullText THEN <<>> ELSE method))
    IN  IF m = <<>> THEN <<>>
        ELSE IF SomeIncluded(VisitedKeywords, m) \/ SomeIncluded(CalledKeywords, m)
             THEN VerifiedByCrunch
             ELSE <<>>

\* texts of the verification_method column
MethodInputs ==
    { NullText,
      <<>>,
      <<" "," "," ">>,
      <<"P","h","o","n","e"," ","c","a","l","l"," ","f","r","o","m"," ","t","e","a","m">>,
      <<"s","u","b","m","i","t","t","e","d"," ","b","y"," ","o","w","n","e","r">>,
      <<"C","r","u","n","c","h"," ","T","e","a","m"," ","V","i","s","i","t","e","d">>,
      <<"C","r","u","n","c","h"," ","T","e","a","m"," ","C","a","l","l","e","d">>,
      <<"O","w","n","e","r"," ","S","u","b","m","i","t","t","e","d">>,
      <<" ","I","n","-","P","e","r","s","o","n"," ">>,
      <<"V","i","s","i","t","e","d"," ","a","f","t","e","r"," ","a"," ","p","h","o","n","e"," ","c","a","l","l">>,
      <<"e","m","a","i","l">> }

-----------------------------------------------------------------------------
(* Resolution of the primary image of a backend row *)

fallbackImage ==
    <<"h","t","t","p","s",":","/","/","i","m","a","g","e","s",".","u","n","s","p","l","a","s","h",".","c","o","m","/","p","h","o","t","o","-","1","4","9","0","4","7","4","4","1","8","5","8","5","-","b","a","9","b","a","d","8","f","d","0","e","a","?","q","=","8","0","&","w","=","1","6","0","0","&","a","u","t","o","=","f","o","r","m","a","t","&","f","i","t","=","c","r","o","p">>

\* /^https?:\/\//i.test(s) on a string
IsAbsolute(s) ==
    LET l == ToLowerCase(s)
    IN  \/ Len(l) >= 7 /\ SubSeq(l, 1, 7) = <<"h","t","t","p",":","/","/">>
        \/ Len(l) >= 8 /\ SubSeq(l, 1, 8) = <<"h","t","t","p","s",":","/","/">>

\* JSON values.  Every value is a record of one shape: kind is "string",
\* "array", "object", "literal" (true, false, a number), "null" or
\* "undefined"; s is the text of a string or literal; items are the elements
\* of an array or the members of an object; key is the name under which the
\* value is a member of an object.
JValue(kind, s, items) == [kind |-> kind, key |-> <<>>, s |-> s, items |-> items]

JNull == JValue("null", <<>>, <<>>)
JUndefined == JValue("undefined", <<>>, <<>>)
JStr(s) == JValue("string", s, <<>>)
JLit(s) == JValue("literal", s, <<>>)
JArr(items) == JValue("array", <<>>, items)
JObj(members) == JValue("object", <<>>, members)
JMember(key, value) == [value EXCEPT !.key = key]

\* the punctuation of JSON text, and the digits
JsonPunctuation == {"[", "]", "{", "}", ",", ":"}
Digits == {"0", "1", "2", "3", "4", "5", "6", "7", "8", "9"}

\* the length of the longest prefix of cs that has no character of stops
RECURSIVE RunLength(_, _)
RunLength(cs, stops) ==
    IF cs = <<>> \/ Head(cs) \in stops THEN 0 ELSE 1 + RunLength(Tail(cs), stops)

\* the tokens of a JSON text: punctuation, string literals (escapes do not
\* occur in the texts of this model), and words; an unterminated string is
\* a "bad" token
RECURSIVE Lex(_)
Lex(cs) ==
    IF cs = <<>> THEN <<>>
    ELSE LET c == Head(cs)
         IN  IF c \in WhiteSpace THEN Lex(Tail(cs))
             ELSE IF c \in JsonPunctuation
                  THEN <<[t |-> c, s |-> <<>>]>> \o Lex(Tail(cs))
             ELSE IF c = "\""
                  THEN LET rest == Tail(cs)
                           n    == RunLength(rest, {"\""})
                       IN  IF n = Len(rest) THEN <<[t |-> "bad", s |-> rest]>>
                           ELSE <<[t |-> "str", s |-> SubSeq(rest, 1, n)]>>
                                \o Lex(SubSeq(rest, n + 2, Len(rest)))
             ELSE LET n == RunLength(cs, WhiteSpace \cup JsonPunctuation \cup {"\""})
                  IN  <<[t |-> "word", s |-> SubSeq(cs, 1, n)]>>
                      \o Lex(SubSeq(cs, n + 1, Len(cs)))

\* a parse that failed
SyntaxError == [ok |-> FALSE, val |-> JUndefined, rest |-> <<>>]

Parsed(val, rest) == [ok |-> TRUE, val |-> val, rest |-> rest]

\* the words that are JSON literals besides null
IsLiteral(w) ==
    \/ w = <<"t","r","u","e">>
    \/ w = <<"f","a","l","s","e">>
    \/ w # <<>> /\ \A i \in 1..Len(w) : w[i] \in Digits

\* recursive descent over the tokens: a value, the elements of an array after
\* its "[", the members of an object after its "{"
RECURSIVE ParseValue(_), ParseItems(_, _), ParseMembers(_, _)
ParseValue(ts) ==
    IF ts = <<>> THEN SyntaxError
    ELSE LET h == Head(ts)
         IN  CASE h.t = "str" -> Parsed(JStr(h.s), Tail(ts))
               [] h.t = "word" ->
                    IF h.s = <<"n","u","l","l">> THEN Parsed(JNull, Tail(ts))
                    ELSE IF IsLiteral(h.s) THEN Parsed(JLit(h.s), Tail(ts))
                    ELSE SyntaxError
               [] h.t = "[" ->
                    IF Len(ts) >= 2 /\ ts[2].t = "]"
                    THEN Parsed(JArr(<<>>), SubSeq(ts, 3, Len(ts)))
                    ELSE ParseItems(Tail(ts), <<>>)
               [] h.t = "{" ->
                    IF Len(ts) >= 2 /\ ts[2].t = "}"
                    THEN Parsed(JObj(<<>>), SubSeq(ts, 3, Len(ts)))
                    ELSE ParseMembers(Tail(ts), <<>>)
               [] OTHER -> SyntaxError

ParseItems(ts, acc) ==
    LET v == ParseValue(ts)
    IN  IF ~v.ok \/ v.rest = <<>> THEN SyntaxError
        ELSE IF Head(v.rest).t = "," THEN ParseItems(Tail(v.rest), Append(acc, v.val))
        ELSE IF Head(v.rest).t = "]" THEN Parsed(JArr(Append(acc, v.val)), Tail(v.rest))
        ELSE SyntaxError

ParseMembers(ts, acc) ==
    IF Len(ts) < 3 \/ ts[1].t # "str" \/ ts[2].t # ":" THEN SyntaxError
    ELSE LET v == ParseValue(SubSeq(ts, 3, Len(ts)))
             m == Append(acc, JMember(ts[1].s, v.val))
         IN  IF ~v.ok \/ v.rest = <<>> THEN SyntaxError
             ELSE IF Head(v.rest).t = "," THEN ParseMembers(Tail(v.rest), m)
             ELSE IF Head(v.rest).t = "}" THEN Parsed(JObj(m), Tail(v.rest))
             ELSE SyntaxError

\* JSON.parse(text): the value of the text, or a SyntaxError (ok = FALSE)
JsonParse(text) ==
    LET r == ParseValue(Lex(text))
    IN  IF r.ok /\ r.rest = <<>> THEN r ELSE SyntaxError

\* x.key of a value (the last member of that name), undefined when absent
Get(x, key) ==
    LET idx == IF x.kind = "object"
               THEN {i \in 1..Len(x.items) : x.items[i].key = key} ELSE {}
    IN  IF idx = {} THEN JUndefined
        ELSE JMember(<<>>, x.items[CHOOSE i \in idx : \A j \in idx : j <= i])

\* truthiness, a || b, typeof x === 'string', x && typeof x === 'object'
Truthy(x) ==
    CASE x.kind \in {"null", "undefined"} -> FALSE
      [] x.kind = "string" -> x.s # <<>>
      [] x.kind = "literal" -> x.s \notin {<<"f","a","l","s","e">>, <<"0">>}
      [] OTHER -> TRUE

Or(a, b) == IF Truthy(a) THEN a ELSE b

IsString(x) == x.kind = "string"

IsObject(x) == x.kind \in {"array", "object"}

\* /^https?:\/\//i.test(x) on a string, null, undefined or literal (a value
\* that is not a string is tested as its text, which is never a URL)
Test(x) == IsString(x) /\ IsAbsolute(x.s)

\* array.find(p), given the indices of the elements that satisfy p: the first
\* of them, else undefined
Find(items, idx) ==
    IF idx = {} THEN JUndefined
    ELSE items[CHOOSE i \in idx : \A j \in idx : i <= j]

\* the image_urls column of a row: null, a text, or a value the backend
\* already returns as JSON
ImageUrlsNull == [type |-> "null", text |-> <<>>, value |-> JNull]
ImageUrlsText(text) == [type |-> "string", text |-> text, value |-> JUndefined]
ImageUrlsJson(value) == [type |-> "json", text |-> <<>>, value |-> value]

\* what the try block of resolvePrimaryImage returns for a parsed value; the
\* empty text when it returns nothing
ResolveParsed(parsed) ==
    LET url(x) == Get(x, <<"u","r","l">>)
        src(x) == Get(x, <<"s","r","c">>)
        absString(x) == IsString(x) /\ IsAbsolute(x.s)
        hasLink(x) == Truthy(x) /\ IsObject(x) /\ (IsString(url(x)) \/ IsString(src(x)))
        absLink(x) == Truthy(x) /\ IsObject(x) /\ absString(Or(url(x), src(x)))
        absEntry(x) == absString(x) \/ absLink(x)
    IN  IF parsed.kind = "array"
        THEN LET fromString == Find(parsed.items, {i \in 1..Len(parsed.items) : absString(parsed.items[i])})
                 fromObj    == Find(parsed.items, {i \in 1..Len(parsed.items) : hasLink(parsed.items[i])})
                 cand       == Or(url(fromObj), src(fromObj))
             IN  IF Truthy(fromString) THEN fromString.s
                 ELSE IF Truthy(fromObj) /\ Test(cand) THEN cand.s
                 ELSE <<>>
        ELSE IF parsed.kind = "object"
        THEN LET direct == Or(url(parsed), src(parsed))
                 images == Get(parsed, <<"i","m","a","g","e","s">>)
                 cand   == Find(images.items, {i \in 1..Len(images.items) : absEntry(images.items[i])})
                 c      == Or(url(cand), src(cand))
             IN  IF absString(direct) THEN direct.s
                 ELSE IF images.kind = "array" /\ Truthy(cand)
                      THEN IF IsString(cand) THEN cand.s
                           ELSE IF Test(c) THEN c.s ELSE <<>>
                 ELSE <<>>
        ELSE IF absString(parsed) THEN parsed.s
        ELSE <<>>

\* resolvePrimaryImage: the trimmed image_url when it is absolute; else what
\* the parsed image_urls yields; else the trimmed image_urls text when it is
\* absolute; else the fallback
resolvePrimaryImage(row) ==
    LET primary == Trim(IF row.image_url = NullText THEN <<>> ELSE row.image_url)
        iuRaw   == row.image_urls
        isText  == iuRaw.type = "string"
        iu      == Trim(iuRaw.text)
        falsy   == CASE iuRaw.type = "null" -> TRUE
                     [] iuRaw.type = "string" -> iu = <<>>
                     [] OTHER -> ~Truthy(iuRaw.value)
        parsed  == IF isText THEN JsonParse(iu) ELSE Parsed(iuRaw.value, <<>>)
        inTry   == IF parsed.ok THEN ResolveParsed(parsed.val) ELSE <<>>
    IN  IF primary # <<>> /\ IsAbsolute(primary) THEN primary
        ELSE IF falsy THEN fallbackImage
        ELSE IF inTry # <<>> THEN inTry
        ELSE IF isText /\ IsAbsolute(Trim(iu)) THEN Trim(iu)
        ELSE fallbackImage

\* the verified, verificationMethod and imageUrl fields of mapRestaurantRow
mapRowBadgeAndImage(row) ==
    [verified           |-> Boolean(row.verified),
     verificationMethod |-> verificationMethod(row.verification_method),
     imageUrl           |-> resolvePrimaryImage(row)]

\* texts of the image_url column
PrimaryInputs ==
    { NullText,
      <<"n","o","t","-","a","-","u","r","l">>,
      <<" ","h","t","t","p","s",":","/","/","x","/","p",".","j","p","g"," ">> }

\* values of the image_urls column
SecondaryInputs ==
    { ImageUrlsNull,
      ImageUrlsText(<<"[","\"","h","t","t","p","s",":","/","/","x","/","a",".","j","p","g","\"",",","\"","n","o","t","-","a","-","u","r","l","\"","]">>),
      ImageUrlsText(<<"[","\"","n","o","t","-","a","-","u","r","l","\"",","," ","\"","h","t","t","p","s",":","/","/","x","/","a",".","j","p","g","\"","]">>),
      ImageUrlsText(<<"[","{","\"","u","r","l","\"",":","\"","h","t","t","p","s",":","/","/","x","/","a",".","j","p","g","\"","}","]">>),
      ImageUrlsText(<<"[","{","\"","u","r","l","\"",":","\"","n","o","t","-","a","-","u","r","l","\"","}",",","{","\"","u","r","l","\"",":","\"","h","t","t","p","s",":","/","/","x","/","b",".","j","p","g","\"","}","]">>),
      ImageUrlsText(<<"[","{","\"","s","r","c","\"",":","\"","h","t","t","p","s",":","/","/","x","/","o",".","j","p","g","\"","}",",","\"","h","t","t","p","s",":","/","/","x","/","s",".","j","p","g","\"","]">>),
      ImageUrlsText(<<"[","n","u","l","l",",","{","\"","u","r","l","\"",":","\"","\"",",","\"","s","r","c","\"",":","\"","h","t","t","p","s",":","/","/","x","/","a",".","j","p","g","\"","}","]">>),
      ImageUrlsText(<<"{","\"","u","r","l","\"",":","\"","h","t","t","p","s",":","/","/","x","/","a",".","j","p","g","\"","}">>),
      ImageUrlsText(<<"{","\"","s","r","c","\"",":","\"","H","T","T","P",":","/","/","x","/","a",".","j","p","g","\"",",","\"","u","r","l","\"",":","\"","\"","}">>),
      ImageUrlsText(<<"{","\"","u","r","l","\"",":","\"","r","e","l",".","p","n","g","\"",",","\"","s","r","c","\"",":","\"","h","t","t","p","s",":","/","/","x","/","a",".","j","p","g","\"","}">>),
      ImageUrlsText(<<"{","\"","i","m","a","g","e","s","\"",":","[","\"","r","e","l",".","p","n","g","\"",",","{","\"","s","r","c","\"",":","\"","h","t","t","p","s",":","/","/","x","/","i",".","j","p","g","\"","}","]","}">>),
      ImageUrlsText(<<" ","h","t","t","p","s",":","/","/","x","/","a",".","j","p","g"," ">>),
      ImageUrlsText(<<"n","o","t","-","a","-","u","r","l">>),
      ImageUrlsText(<<"\"","h","t","t","p","s",":","/","/","x","/","q",".","j","p","g","\"">>),
      ImageUrlsText(<<"[","\"","h","t","t","p","s",":","/","/","x","/","a",".","j","p","g","\"">>),
      ImageUrlsText(<<"[","]">>),
      ImageUrlsText(<<>>),
      ImageUrlsJson(JArr(<<JStr(<<"r","e","l",".","p","n","g">>), JStr(<<"h","t","t","p","s",":","/","/","x","/","a",".","j","p","g">>)>>)),
      ImageUrlsJson(JObj(<<JMember(<<"i","m","a","g","e","s">>, JArr(<<JObj(<<JMember(<<"u","r","l">>, JStr(<<"r","e","l",".","p","n","g">>))>>), JObj(<<JMember(<<"u","r","l">>, JStr(<<"h","t","t","p","s",":","/","/","x","/","i",".","j","p","g">>))>>)>>))>>)),
      ImageUrlsJson(JArr(<<>>)) }

\* a backend row is drawn; nothing else has happened
InitNormalise ==
    /\ InitView /\ hash = <<>> /\ stored = "null"
    /\ InitListing
    /\ selectedCity = NewYork
    /\ restaurants = <<>>
    /\ InitModeration
    /\ InitEngine
    /\ InitSuggest
    /\ raw \in [verified : JsValues, verification_method : MethodInputs,
                image_url : PrimaryInputs, image_urls : SecondaryInputs]
    /\ normalised = <<>>

\* the drawn row is normalised; normalised lists the result
NormaliseRow ==
    /\ Len(normalised) = 0
    /\ normalised' = <<mapRowBadgeAndImage(raw)>>
    /\ UNCHANGED raw
    /\ UNCHANGED <<navVars, fetchVars, modVars, engineVars, suggestVars>>

-----------------------------------------------------------------------------
(* Normalisation of the list fields of a backend row *)

\* values of the oils_used and oils_avoided columns: null, a list, a text, a
\* number, an object
OilsInputs ==
    { [t |-> "null", v |-> <<>>],
      [t |-> "array", v |-> <<>>],
      [t |-> "array", v |-> <<"Olive Oil", "", "Tallow">>],
      [t |-> "string", v |-> <<>>],
      [t |-> "string", v |-> <<"O","l","i","v","e"," ","O","i","l",";"," ","T","a","l","l","o","w"," ",",",",","G","h","e","e">> \o <<"\n">> \o <<" ","B","u","t","t","e","r"," ">>],
      [t |-> "string", v |-> <<" ",";"," ">>],
      [t |-> "number", v |-> <<>>],
      [t |-> "object", v |-> <<>>] }

\* values of the restaurant_dietary_tags field: null, a list of join rows
\* (each the name of its dietary tag, "" for an empty name, Null for a row
\* without a tag), the falsy values '' and 0, and the truthy values that are
\* not lists: an object, a text, a number
TagsInputs ==
    { [t |-> "null", v |-> <<>>],
      [t |-> "array", v |-> <<>>],
      [t |-> "array", v |-> <<"Keto", Null, "", "Vegan">>],
      [t |-> "falsy", v |-> <<>>],
      [t |-> "object", v |-> <<>>],
      [t |-> "string", v |-> <<"Keto">>],
      [t |-> "number", v |-> <<>>] }

\* tagsFromJoin: (row.restaurant_dietary_tags || [])?.map(j =>
\* j?.dietary_tags?.name).filter(Boolean); a truthy value that is not a list
\* has no map method, and calling it throws
tagsFromJoin(field) ==
    CASE field.t \in {"null", "falsy"} -> [thrown |-> FALSE, value |-> <<>>]
      [] field.t = "array" ->
           [thrown |-> FALSE,
            value |-> SelectSeq(field.v, LAMBDA name : name \notin {Null, ""})]
      [] OTHER -> [thrown |-> TRUE, value |-> <<>>]

\* the dietaryTags, oilsUsed and oilsAvoided fields of mapRestaurantRow;
\* thrown when the call raises a TypeError
mapRowLists(row) ==
    LET tags == tagsFromJoin(row.restaurant_dietary_tags)
    IN  IF tags.thrown
        THEN [thrown |-> TRUE, dietaryTags |-> <<>>, oilsUsed |-> <<>>, oilsAvoided |-> <<>>]
        ELSE [thrown      |-> FALSE,
              dietaryTags |-> tags.value,
              oilsUsed    |-> splitToArray(row.oils_used),
              oilsAvoided |-> splitToArray(row.oils_avoided)]

\* a backend row is drawn; nothing else has happened
InitLists ==
    /\ InitView /\ hash = <<>> /\ stored = "null"
    /\ InitListing
    /\ selectedCity = NewYork
    /\ restaurants = <<>>
    /\ InitModeration
    /\ InitEngine
    /\ InitSuggest
    /\ raw \in [oils_used : OilsInputs, oils_avoided : OilsInputs,
                restaurant_dietary_tags : TagsInputs]
    /\ normalised = <<>>

\* the list fields of the drawn row are normalised; normalised lists the
\* result
NormaliseLists ==
    /\ Len(normalised) = 0
    /\ normalised' = <<mapRowLists(raw)>>
    /\ UNCHANGED raw
    /\ UNCHANGED <<navVars, fetchVars, modVars, engineVars, suggestVars>>

-----------------------------------------------------------------------------
(* The suggestion form: its fields, its submit and handleSubmission *)

\* submits of the form in one behaviour
MaxSuggestions == 2

\* texts typed into the name and address fields
FormNames == {<<>>, <<" ">>, <<"C","a","f","e">>}

FormAddresses == {<<>>, <<"1"," ","M","a","i","n">>}

\* the fields handleSubmission and the Suggest Another button set
ClearedSubmission == [name |-> <<>>, address |-> <<>>, city |-> NYC]

\* onChange of the name and address fields
EditSuggestion(name, address) ==
    /\ ~suggestSuccess
    /\ newSubmission' = [newSubmission EXCEPT !.name = name, !.address = address]
    /\ newSubmission' # newSubmission
    /\ UNCHANGED <<suggestNameTouched, suggestAddressTouched, suggestSuccess,
                   showSubmissionForm, suggestOps, suggestCount>>
    /\ UNCHANGED <<navVars, fetchVars, modVars, engineVars, pureVars>>

\* the form is submitted: blank fields are marked touched; with a blank name
\* or address the handler returns; otherwise handleSubmission passes its own
\* blank test and issues the insert of the payload
SubmitSuggestion ==
    /\ ~suggestSuccess
    /\ suggestCount < MaxSuggestions
    /\ suggestCount' = suggestCount + 1
    /\ suggestNameTouched' = (suggestNameTouched \/ Trim(newSubmission.name) = <<>>)
    /\ suggestAddressTouched' = (suggestAddressTouched \/ Trim(newSubmission.address) = <<>>)
    /\ LET valid == Len(Trim(newSubmission.name)) > 0 /\ Len(Trim(newSubmission.address)) > 0
       IN  /\ suggestOps' = IF valid
                            THEN suggestOps \cup {[id |-> suggestCount + 1,
                                                   payload |-> newSubmission]}
                            ELSE suggestOps
           /\ fetchOp' = [op |-> IF valid THEN "suggestInsert" ELSE "suggestBlank",
                          id |-> suggestCount + 1, ok |-> valid]
    /\ UNCHANGED <<newSubmission, suggestSuccess, showSubmissionForm>>
    /\ UNCHANGED <<navVars, selectedCity, cityOptions, citiesLoad, loading, loadError,
                   restaurants, page, hasMore, pendingSubmissions, inflight, issued, overlap>>
    /\ UNCHANGED <<modVars, engineVars, pureVars>>

\* SuggestionInsertError that also resets the fields
SuggestionInsertError_Clears(op) ==
    /\ op \in suggestOps
    /\ suggestOps' = suggestOps \ {op}
    /\ SetToasts(showToastMessage(ToastState, "Failed to submit", "error"))
    /\ newSubmission' = ClearedSubmission
    /\ fetchOp' = [op |-> "suggestError", id |-> op.id, ok |-> FALSE]
    /\ UNCHANGED <<suggestNameTouched, suggestAddressTouched, suggestSuccess,
                   showSubmissionForm, suggestCount>>
    /\ UNCHANGED <<navVars, selectedCity, cityOptions, citiesLoad, loading, loadError,
                   restaurants, page, hasMore, pendingSubmissions, inflight, issued, overlap>>
    /\ UNCHANGED <<dbPending, dbInserted, modOps, modCount, authVars>>
    /\ UNCHANGED <<engineVars, pureVars>>

\* the insert fails: the notice with the backend's message is shown and
\* handleSubmission returns false
SuggestionInsertError(op) ==
    /\ op \in suggestOps
    /\ suggestOps' = suggestOps \ {op}
    /\ SetToasts(showToastMessage(ToastState, "Failed to submit", "error"))
    /\ fetchOp' = [op |-> "suggestError", id |-> op.id, ok |-> FALSE]
    /\ UNCHANGED <<newSubmission, suggestNameTouched, suggestAddressTouched, suggestSuccess,
                   showSubmissionForm, suggestCount>>
    /\ UNCHANGED <<navVars, selectedCity, cityOptions, citiesLoad, loading, loadError,
                   restaurants, page, hasMore, pendingSubmissions, inflight, issued, overlap>>
    /\ UNCHANGED <<dbPending, dbInserted, modOps, modCount, authVars>>
    /\ UNCHANGED <<engineVars, pureVars>>

\* the insert succeeds: the fields are reset, the modal flag is cleared, the
\* thanks notice is shown, handleSubmission returns true and the form handler
\* sets suggestSuccess
SuggestionInsertOk(op) ==
    /\ op \in suggestOps
    /\ suggestOps' = suggestOps \ {op}
    /\ newSubmission' = ClearedSubmission
    /\ showSubmissionForm' = FALSE
    /\ SetToasts(showToastMessage(ToastState, "Thank you for your submission!", "success"))
    /\ suggestSuccess' = TRUE
    /\ fetchOp' = [op |-> "suggestOk", id |-> op.id, ok |-> TRUE]
    /\ UNCHANGED <<suggestNameTouched, suggestAddressTouched, suggestCount>>
    /\ UNCHANGED <<navVars, selectedCity, cityOptions, citiesLoad, loading, loadError,
                   restaurants, page, hasMore, pendingSubmissions, inflight, issued, overlap>>
    /\ UNCHANGED <<dbPending, dbInserted, modOps, modCount, authVars>>
    /\ UNCHANGED <<engineVars, pureVars>>

\* the Suggest Another button of the confirmation
SuggestAnother ==
    /\ suggestSuccess
    /\ suggestSuccess' = FALSE
    /\ newSubmission' = ClearedSubmission
    /\ suggestNameTouched' = FALSE
    /\ suggestAddressTouched' = FALSE
    /\ UNCHANGED <<showSubmissionForm, suggestOps, suggestCount>>
    /\ UNCHANGED <<navVars, fetchVars, modVars, engineVars, pureVars>>

-----------------------------------------------------------------------------
(* handleFilterChange applied to drawn selections *)

\* the keys of Filters
FilterTypes == {"diet", "oils", "neighborhood", "priceRange", "verified"}

\* texts passed as the value of a diet, oils, neighborhood or priceRange
\* change
FilterTexts == {<<"K","e","t","o">>, <<"T","a","l","l","o","w">>, <<"C","a","n","o","l","a"," ","O","i","l">>, <<"C","h","e","l","s","e","a">>, <<"$","$">>}

\* handleFilterChange that always appends the value
handleFilterChange_AppendOnly(prev, type, text, flag) ==
    IF type \in {"diet", "oils"} THEN [prev EXCEPT ![type] = Append(prev[type], text)]
    ELSE IF type = "verified" THEN [prev EXCEPT !.verified = flag]
    ELSE IF type \in {"priceRange", "neighborhood"} THEN [prev EXCEPT ![type] = text]
    ELSE prev

\* the updater of handleFilterChange(type, value), the value given as a text
\* (diet, oils, neighborhood, priceRange) or as a truth value (verified)
handleFilterChange(prev, type, text, flag) ==
    IF type \in {"diet", "oils"}
    THEN LET arr    == prev[type]
             exists == \E i \in 1..Len(arr) : arr[i] = text
         IN  [prev EXCEPT ![type] = IF exists
                                    THEN SelectSeq(arr, LAMBDA item : item # text)
                                    ELSE Append(arr, text)]
    ELSE IF type = "verified" THEN [prev EXCEPT !.verified = flag]
    ELSE IF type \in {"priceRange", "neighborhood"} THEN [prev EXCEPT ![type] = text]
    ELSE prev

\* a selection and a change are drawn; nothing else has happened
InitToggle ==
    /\ InitView /\ hash = <<>> /\ stored = "null"
    /\ InitListing
    /\ selectedCity = NewYork
    /\ restaurants = <<>>
    /\ InitModeration
    /\ InitSuggest
    /\ searchQuery = <<>>
    /\ sortBy = "rating"
    /\ filteredRestaurants = <<>>
    /\ homeFeatured = <<>>
    /\ renders = 0
    /\ raw \in [filters : FilterInputs, type : FilterTypes \ {"verified"},
                text : FilterTexts, flag : {FALSE}]
              \cup [filters : FilterInputs, type : {"verified"},
                    text : {<<>>}, flag : BOOLEAN]
    /\ selectedFilters = raw.filters
    /\ normalised = <<>>

\* handleFilterChange is called with the drawn change; normalised lists the
\* selections that resulted
ChangeFilter ==
    /\ Len(normalised) < MaxApplications
    /\ selectedFilters' = handleFilterChange(selectedFilters, raw.type, raw.text, raw.flag)
    /\ normalised' = Append(normalised, selectedFilters')
    /\ UNCHANGED <<raw, searchQuery, sortBy, filteredRestaurants, homeFeatured, renders>>
    /\ UNCHANGED <<navVars, fetchVars, modVars, suggestVars>>

-----------------------------------------------------------------------------
(* Mount and navigation *)

\* First render and the mount effects, in declaration order.  The cities
\* query is issued; the hash-init effect, the hash-sync effect and the persist
\* effect run with the first render's closure (currentView = getInitialView());
\* the mount effect and the [selectedCity] effect each call fetchData(true).
Mount ==
    /\ ~mounted
    /\ LET first   == getInitialView(stored)
           initial == viewFromHash(hash)
           target  == HashTarget(first)
       IN  /\ currentView' = initial
           /\ renderedView' = first
           /\ IF hash # target
              THEN hash' = target /\ hashEvents' = hashEvents + 1
              ELSE UNCHANGED <<hash, hashEvents>>
           /\ stored' = first
    /\ mounted' = TRUE
    /\ navOp' = "mount"
    /\ citiesLoad' = "pending"
    /\ loading' = TRUE
    /\ loadError' = Null
    /\ inflight' = inflight (+) SetToBag({Request(TRUE, selectedCity, cityOptions, page)})
                            (+) SetToBag({Request(TRUE, selectedCity, cityOptions, page)})
    /\ issued' = issued + 2
    /\ overlap' = TRUE
    /\ fetchOp' = [op |-> "call", id |-> 0, ok |-> FALSE]
    /\ UNCHANGED <<mountStored, mountHash, touched>>
    /\ UNCHANGED <<selectedCity, cityOptions, restaurants, page, hasMore, pendingSubmissions>>
    /\ UNCHANGED modVars
    /\ UNCHANGED <<engineVars, suggestVars, pureVars>>

\* navigate(view)
navigate(view) ==
    /\ mounted
    /\ currentView' = view
    /\ IF hash # HashTarget(view)
       THEN /\ hashEvents < MaxHashEvents
            /\ hash' = HashTarget(view)
            /\ hashEvents' = hashEvents + 1
       ELSE UNCHANGED <<hash, hashEvents>>
    /\ touched' = TRUE
    /\ navOp' = "navigate"
    /\ UNCHANGED <<mounted, renderedView, stored, mountStored, mountHash>>
    /\ UNCHANGED <<fetchVars, modVars>>
    /\ UNCHANGED <<engineVars, suggestVars, pureVars>>

\* setCurrentView('results') from the search form and the "Find Restaurants"
\* and "View all" buttons
SetViewResults ==
    /\ mounted
    /\ currentView' = "results"
    /\ touched' = TRUE
    /\ navOp' = "direct"
    /\ UNCHANGED <<mounted, renderedView, hash, stored, hashEvents, mountStored, mountHash>>
    /\ UNCHANGED <<fetchVars, modVars>>
    /\ UNCHANGED <<engineVars, suggestVars, pureVars>>

\* the user edits the fragment, or goes back / forward
ExternalHashChange(h) ==
    /\ mounted
    /\ h # hash
    /\ hashEvents < MaxHashEvents
    /\ hash' = h
    /\ hashEvents' = hashEvents + 1
    /\ touched' = TRUE
    /\ navOp' = "external"
    /\ UNCHANGED <<mounted, currentView, renderedView, stored, mountStored, mountHash>>
    /\ UNCHANGED <<fetchVars, modVars>>
    /\ UNCHANGED <<engineVars, suggestVars, pureVars>>

\* onHashChange: the listener reads the fragment as it is when it runs
onHashChange ==
    /\ mounted
    /\ hashEvents > 0
    /\ hashEvents' = hashEvents - 1
    /\ currentView' = viewFromHash(hash)
    /\ navOp' = "hashchange"
    /\ UNCHANGED <<mounted, renderedView, hash, stored, mountStored, mountHash, touched>>
    /\ UNCHANGED <<fetchVars, modVars>>
    /\ UNCHANGED <<engineVars, suggestVars, pureVars>>

\* The re-render after currentView changed: the hash-sync effect and the
\* persist effect (both with dependency [currentView]).
ViewEffects ==
    /\ mounted
    /\ currentView # renderedView
    /\ IF hash # HashTarget(currentView)
       THEN /\ hashEvents < MaxHashEvents
            /\ hash' = HashTarget(currentView)
            /\ hashEvents' = hashEvents + 1
       ELSE UNCHANGED <<hash, hashEvents>>
    /\ stored' = currentView
    /\ renderedView' = currentView
    /\ navOp' = "effects"
    /\ UNCHANGED <<mounted, currentView, mountStored, mountHash, touched>>
    /\ UNCHANGED <<fetchVars, modVars>>
    /\ UNCHANGED <<engineVars, suggestVars, pureVars>>

-----------------------------------------------------------------------------
(* Specifications *)

\* the view / fragment / persisted-value machine, from every startup fragment
\* and persisted value
NextNav ==
    \/ Mount
    \/ \E v \in Views : navigate(v)
    \/ SetViewResults
    \/ \E h \in HashInputs : ExternalHashChange(h)
    \/ onHashChange
    \/ ViewEffects

SpecNav == Init /\ [][NextNav]_vars

\* the listing machine, started without fragment or persisted view: the
\* mount fetches, city changes, the cities load and further pages
InitFetch == Init /\ hash = <<>> /\ stored = "null"

NextFetch ==
    \/ Mount
    \/ LoadMore
    \/ \E c \in {NewYork, NYC, LosAngeles} : SelectCity(c)
    \/ CitiesError
    \/ \E t \in CityTables : CitiesData(t)
    \/ \E f \in InFlight : RestaurantsError(f)
    \/ \E f \in InFlight, hasCount \in BOOLEAN : RestaurantsData(f, hasCount)
    \/ \E f \in InFlight : PendingError(f)
    \/ \E f \in InFlight : PendingData(f)

SpecFetch == InitFetch /\ [][NextFetch]_vars

\* the moderation machine: approve and reject with their notices, and the
\* fetches that approve, reject and the mount trigger; the cities query of the
\* mount fails or stays outstanding
NextMod ==
    \/ Mount
    \/ CitiesError
    \/ \E f \in InFlight : RestaurantsError(f)
    \/ \E f \in InFlight, hasCount \in BOOLEAN : RestaurantsData(f, hasCount)
    \/ \E f \in InFlight : PendingError(f)
    \/ \E f \in InFlight : PendingData(f)
    \/ \E id \in SubmissionIds : approveSubmission(id)
    \/ \E m \in modOps : ApproveInsertError(m)
    \/ \E m \in modOps : ApproveInsertOk(m)
    \/ \E m \in modOps, deleted \in BOOLEAN : ApproveDeleteDone(m, deleted)
    \/ \E id \in SubmissionIds : rejectSubmission(id)
    \/ \E m \in modOps : RejectDeleteError(m)
    \/ \E m \in modOps : RejectDeleteOk(m)
    \/ TimerFires

SpecMod == InitFetch /\ [][NextMod]_vars

\* the repeated-approve machine: approve invoked up to MaxApproves times on
\* the submissions of a backend that answers every fetch
NextApprove ==
    \/ Mount
    \/ \E f \in InFlight : RestaurantsData(f, TRUE)
    \/ \E f \in InFlight : PendingData(f)
    \/ \E id \in SubmissionIds : approveAgain(id)
    \/ \E m \in modOps : ApproveInsertError(m)
    \/ \E m \in modOps : ApproveInsertOk(m)
    \/ \E m \in modOps, deleted \in BOOLEAN : ApproveDeleteDone(m, deleted)
    \/ TimerFires

SpecApprove == InitFetch /\ [][NextApprove]_vars

\* the auth machine: the auth callback and its role lookup, with approve and
\* reject and the fetches of a backend that answers every query
NextAuth ==
    \/ Mount
    \/ \E f \in InFlight : RestaurantsData(f, TRUE)
    \/ \E f \in InFlight : PendingData(f)
    \/ \E user \in Users \cup {NoUser} : onAuthStateChange(user)
    \/ \E user \in Users : RoleLookupError(user)
    \/ \E user \in Users : RoleLookupData(user)
    \/ \E id \in SubmissionIds : approveSubmission(id)
    \/ \E m \in modOps : ApproveInsertError(m)
    \/ \E m \in modOps : ApproveInsertOk(m)
    \/ \E m \in modOps, deleted \in BOOLEAN : ApproveDeleteDone(m, deleted)
    \/ \E id \in SubmissionIds : rejectSubmission(id)
    \/ \E m \in modOps : RejectDeleteError(m)
    \/ \E m \in modOps : RejectDeleteOk(m)

SpecAuth == InitFetch /\ [][NextAuth]_vars

\* the filter / sort engine applied to drawn inputs
NextFilter == RenderLists

SpecFilter == InitFilter /\ [][NextFilter]_vars

\* a canonicaliser applied repeatedly to a drawn input
NextCanon == ApplyCanonical

SpecCanon == InitCanon /\ [][NextCanon]_vars

\* a drawn backend row normalised
NextNormalise == NormaliseRow

SpecNormalise == InitNormalise /\ [][NextNormalise]_vars

\* the list fields of a drawn backend row normalised
NextLists == NormaliseLists

SpecLists == InitLists /\ [][NextLists]_vars

\* the suggestion form, with the listing loaded by the mount fetch
NextSuggest ==
    \/ Mount
    \/ \E f \in InFlight : RestaurantsData(f, TRUE)
    \/ \E f \in InFlight : PendingData(f)
    \/ \E name \in FormNames, address \in FormAddresses : EditSuggestion(name, address)
    \/ SubmitSuggestion
    \/ \E op \in suggestOps : SuggestionInsertError(op)
    \/ \E op \in suggestOps : SuggestionInsertOk(op)
    \/ SuggestAnother

SpecSuggest == InitFetch /\ [][NextSuggest]_vars

\* the notices: shown by handlers, dismissed by their button or their timer
NextToast ==
    \/ \E notice \in Notices : ShowToast(notice)
    \/ \E id \in 1..MaxToasts : DismissToast(id)
    \/ TimerFires

SpecToast == InitFetch /\ [][NextToast]_vars

\* the notices, with every pending timer firing eventually
SpecToastLive == SpecToast /\ WF_vars(TimerFires)

\* a drawn filter change applied repeatedly to a drawn selection
NextToggle == ChangeFilter

SpecToggle == InitToggle /\ [][NextToggle]_vars

\* no hashchange event is queued and no view effect is due
NavQuiescent == mounted /\ hashEvents = 0 /\ currentView = renderedView

\* no fetchData invocation is in flight
FetchQuiescent == mounted /\ inflight = EmptyBag

-----------------------------------------------------------------------------
(* Navigation claims *)

\* C1 (as claimed): whenever no hashchange event is queued and no view effect
\* is due, the fragment is '#/<currentView>' and the persisted value equals
\* currentView, which is one of the six views.
C1_CopiesAgree ==
    NavQuiescent =>
        /\ currentView \in Views
        /\ hash = HashTarget(currentView)
        /\ stored = currentView

\* C2 (as claimed, its "in particular" case): after mount with no fragment
\* present and a valid persisted view v, once the mount's effects and events
\* are processed and before any navigation, the view is v.
C2_PersistedViewRestored ==
    (NavQuiescent /\ ~touched /\ mountHash = <<>> /\ mountStored \in Views) =>
        currentView = mountStored

\* the view the URL scheme of the specification gives a fragment: the named
\* view for exactly '#/<view>', home for everything else
StrictView(h) ==
    IF \E v \in Views : h = HashTarget(v)
    THEN CHOOSE v \in Views : h = HashTarget(v)
    ELSE "home"

Spells(h, v) ==
    \/ ToLowerCase(h) = <<"#", "/">> \o ViewChars(v)
    \/ ToLowerCase(h) = <<"#">> \o ViewChars(v)

-----------------------------------------------------------------------------
(* Listing claims *)

\* rows is exactly page p of the result of filter: the rows at offsets
\* 20p .. 20p+19 that exist, in order
IsPage(rows, filter, p) ==
    LET avail == TotalRows(filter) - 20 * p
        n     == IF avail < 0 THEN 0 ELSE IF avail > 20 THEN 20 ELSE avail
    IN  /\ Len(rows) = n
        /\ \A i \in 1..Len(rows) :
              /\ rows[i].query = QueryIndex(filter)
              /\ rows[i].off = 20 * p + i - 1

\* the step is the arrival of the rows of the restaurants query of f
DataStep(f) ==
    /\ f.pc = "restaurants"
    /\ fetchOp'.op = "restaurantsData"
    /\ inflight' = ToPendingQuery(f)

\* the step is the failure of the restaurants query of f
ErrorStep(f) ==
    /\ f.pc = "restaurants"
    /\ fetchOp'.op = "restaurantsError"
    /\ inflight' = ToPendingQuery(f)

\* the step is the end of invocation f (its pending query returned or failed)
FinishStep(f) ==
    /\ f.pc = "pending"
    /\ fetchOp'.op \in {"pendingData", "pendingError"}
    /\ inflight' = inflight (-) SetToBag({f})

\* C4: when the rows of a fetch arrive that never overlapped another fetch,
\* with reset the collection becomes exactly page 0 of the selected city's
\* result and the cursor 1; without reset and with cursor p, page p is appended
\* to the otherwise unchanged collection and the cursor becomes p + 1.
C4_SingleFetch ==
    [][\A f \in InFlight :
        (DataStep(f) /\ ~overlap /\ BagCardinality(inflight) = 1) =>
            LET filter == CityFilter(selectedCity, cityOptions)
            IN  IF f.reset
                THEN /\ IsPage(restaurants', filter, 0)
                     /\ page' = 1
                ELSE /\ Len(restaurants') >= Len(restaurants)
                     /\ SubSeq(restaurants', 1, Len(restaurants)) = restaurants
                     /\ IsPage(SubSeq(restaurants', Len(restaurants) + 1, Len(restaurants')),
                               filter, page)
                     /\ page' = page + 1]_vars

\* C4 witness: a lone append fetch at cursor 1 has delivered page 1 after
\* page 0.
C4_Witness ==
    /\ fetchOp.op = "restaurantsData"
    /\ ~overlap
    /\ BagCardinality(inflight) = 1
    /\ page = 2
    /\ Len(restaurants) = 40
    /\ restaurants[21].off = 20

\* C5: the rows of a reset fetch, whenever they arrive and whichever city is
\* selected by then, replace the whole collection; so an older reset fetch that
\* resolves last leaves its rows as the final collection.
C5_ResetReplaces ==
    [][\A f \in InFlight :
        (DataStep(f) /\ f.reset) => IsPage(restaurants', f.filter, 0)]_vars

\* C5 witness: no fetch is in flight, Los Angeles is selected, the last fetch
\* issued did not fail, and the collection holds the rows requested for New
\* York.
C5_Witness ==
    /\ FetchQuiescent
    /\ selectedCity = LosAngeles
    /\ loadError = Null
    /\ page = 1
    /\ restaurants # <<>>
    /\ \A i \in 1..Len(restaurants) :
          /\ Queries[restaurants[i].query].col = "cities.name"
          /\ Queries[restaurants[i].query].name = NewYork

\* the step is a call of fetchData(false) that issued request r
AppendCall(r) ==
    /\ ~r.reset
    /\ r.pc = "restaurants"
    /\ fetchOp'.op = "call"
    /\ inflight' = inflight (+) SetToBag({r})

\* C6: an append fetch requests the page at the cursor of the call whatever is
\* in flight, and its rows are appended and the cursor incremented whatever the
\* cursor has become; so two overlapping appends deliver the same page twice.
C6_AppendsNotDeduplicated ==
    [][/\ \A r \in BagToSet(inflight') : AppendCall(r) => r.from = 20 * page
       /\ \A f \in InFlight :
            (DataStep(f) /\ ~f.reset) =>
                /\ SubSeq(restaurants', 1, Len(restaurants)) = restaurants
                /\ IsPage(SubSeq(restaurants', Len(restaurants) + 1, Len(restaurants')),
                          f.filter, f.from \div 20)
                /\ page' = page + 1]_vars

\* C6 witness: two appends started at cursor 1 have both resolved: page 1 is in
\* the collection twice, the cursor is 3, and no row of page 2 was delivered.
C6_Witness ==
    /\ FetchQuiescent
    /\ page = 3
    /\ Len(restaurants) = 60
    /\ restaurants[21].off = 20
    /\ restaurants[41].off = 20
    /\ \A i \in 1..Len(restaurants) : restaurants[i].off < 40

\* C7 (as claimed): once no fetch is in flight, all rows of the collection were
\* obtained with one filter strategy (by city id, or by joined city name).
C7_SingleStrategy ==
    FetchQuiescent =>
        \A i, j \in 1..Len(restaurants) :
            StrategyOf(restaurants[i]) = StrategyOf(restaurants[j])

\* C8: when the restaurants query of a fetch fails, loadError becomes non-null
\* and the collection, the cursor and hasMore stay as they are; the rest of the
\* fetch keeps a non-null loadError and ends with loading false.
C8_FailedFetch ==
    [][\A f \in InFlight :
        /\ ErrorStep(f) =>
              /\ loadError' # Null
              /\ UNCHANGED <<restaurants, page, hasMore>>
        /\ FinishStep(f) =>
              /\ loading' = FALSE
              /\ (loadError # Null => loadError' # Null)
              /\ UNCHANGED <<restaurants, page, hasMore>>]_vars

\* C8 witness: a fetch whose restaurants query failed has finished: the error
\* is shown, loading is false and the rows loaded before are still there.
C8_Witness ==
    /\ fetchOp.op = "pendingData"
    /\ loadError = "Failed to load restaurants"
    /\ ~loading
    /\ inflight = EmptyBag
    /\ Len(restaurants) = 20
    /\ page = 1

\* C9: when the rows of the page covering offsets from..to (to = from + 19)
\* arrive, hasMore becomes (to + 1 < count) if the exact count came with them,
\* and (number of rows returned = 20) otherwise.
C9_HasMore ==
    [][\A f \in InFlight :
        DataStep(f) =>
            LET to == f.from + 19
                returned == IF f.reset THEN Len(restaurants')
                            ELSE Len(restaurants') - Len(restaurants)
            IN  hasMore' = IF fetchOp'.ok THEN to + 1 < TotalRows(f.filter)
                           ELSE returned = 20]_vars

\* C9 witness: a full page of 20 rows arrived with a count of exactly 20, so
\* hasMore is false.
C9_Witness ==
    /\ fetchOp.op = "restaurantsData"
    /\ fetchOp.ok
    /\ Len(restaurants) = 20
    /\ TotalRows(Queries[restaurants[1].query]) = 20
    /\ ~hasMore

-----------------------------------------------------------------------------
(* Moderation claims *)

\* C10: when approve(id) has run to its end with insert and delete both
\* succeeding, id is no longer in the local pending collection and the last
\* entry of the local restaurant collection is built from the submission, with
\* oilsUsed = ['To Be Verified'] and rating = 0.
C10_ApproveMovesSubmission ==
    (fetchOp.op = "approveDone" /\ fetchOp.ok) =>
        /\ fetchOp.id \notin SubmissionIdsOf(pendingSubmissions)
        /\ restaurants # <<>>
        /\ LET new == restaurants[Len(restaurants)]
           IN  /\ StrategyOf(new) = "insert"
               /\ new.off = fetchOp.id
               /\ new.name = PendingRow(fetchOp.id).name
               /\ new.oilsUsed = <<"To Be Verified">>
               /\ new.rating = 0

\* C10 witness: an approve with both requests succeeding has just completed,
\* adding its entry after the rows already listed and leaving the other
\* submission pending.
C10_Witness ==
    /\ fetchOp.op = "approveDone"
    /\ fetchOp.ok
    /\ Len(restaurants) > 1
    /\ Len(pendingSubmissions) = 1

\* the notices that a step added to the toasts
NewToasts == SubSeq(toasts', Len(toasts) + 1, Len(toasts'))

\* C11: when the delete of an approve fails after its insert succeeded, the
\* step raises the warning notice, appends the inserted restaurant to the local
\* restaurant collection and removes the id from the local pending collection,
\* while the pending row stays in the backend and the inserted row is kept.
C11_PartialFailure ==
    [][(fetchOp'.op = "approveDone" /\ ~fetchOp'.ok /\ modOps' # modOps) =>
          LET id == fetchOp'.id
          IN  /\ \E i \in 1..Len(NewToasts) : NewToasts[i].message = WarningMessage
              /\ Len(restaurants') = Len(restaurants) + 1
              /\ SubSeq(restaurants', 1, Len(restaurants)) = restaurants
              /\ StrategyOf(restaurants'[Len(restaurants')]) = "insert"
              /\ restaurants'[Len(restaurants')].off = id
              /\ SubmissionIdsOf(pendingSubmissions') =
                     SubmissionIdsOf(pendingSubmissions) \ {id}
              /\ dbPending' = dbPending
              /\ dbInserted' = dbInserted]_vars

\* C11 witness: an approve whose delete failed has just completed: the warning
\* is on screen, the new entry follows the rows already listed, the id has left
\* the local pending list and is still in the backend's pending table.
C11_Witness ==
    /\ fetchOp.op = "approveDone"
    /\ ~fetchOp.ok
    /\ \E i \in 1..Len(toasts) : toasts[i].message = WarningMessage
    /\ Len(restaurants) > 1
    /\ StrategyOf(restaurants[Len(restaurants)]) = "insert"
    /\ fetchOp.id \notin SubmissionIdsOf(pendingSubmissions)
    /\ fetchOp.id \in dbPending

\* the step belongs to a reject invocation
RejectStep == fetchOp'.op \in {"reject", "rejectDone", "rejectError"}

\* C12: no step of a reject inserts a restaurant or changes the local
\* restaurant collection, and the step in which its delete succeeds removes
\* the id from the local pending collection and keeps every other entry, in
\* order.
C12_RejectRemovesOnly ==
    [][/\ (RejectStep /\ modOps' # modOps) =>
            /\ dbInserted' = dbInserted
            /\ restaurants' = restaurants
            /\ \A m \in modOps' : m.kind = "reject" => m.pc = "delete"
       /\ (fetchOp'.op = "rejectDone" /\ modOps' # modOps) =>
            LET keep(s) == s.id # fetchOp'.id
            IN  pendingSubmissions' = SelectSeq(pendingSubmissions, keep)]_vars

\* C12 witness: a reject has just completed: its id has left the local pending
\* list while the other submission is still there, restaurants are listed and
\* nothing was inserted.
C12_Witness ==
    /\ fetchOp.op = "rejectDone"
    /\ Len(pendingSubmissions) = 1
    /\ pendingSubmissions[1].id # fetchOp.id
    /\ restaurants # <<>>
    /\ dbInserted = EmptyBag

\* the step belongs to an approve or reject invocation and issues a request or
\* changes the backend tables or the local collections
ModerationStep ==
    /\ fetchOp'.op \in {"approve", "approveInsertOk", "approveInsertError", "approveDone",
                        "reject", "rejectDone", "rejectError"}
    /\ \/ modOps' # modOps
       \/ dbPending' # dbPending
       \/ dbInserted' # dbInserted
       \/ pendingSubmissions' # pendingSubmissions
       \/ restaurants' # restaurants

\* C13 (as claimed): a step of an approve or reject invocation issues a remote
\* insert or delete, or changes the local pending or restaurant collection,
\* only if isAdmin is true.
C13_AdminOnly ==
    [][ModerationStep => isAdmin]_vars

-----------------------------------------------------------------------------
(* Filter / sort engine claims *)

\* the two lists have been computed from the inputs of the state
Rendered == renders > 0

\* the elements of a sequence
Elements(seq) == {seq[i] : i \in 1..Len(seq)}

\* the canonical tags of a list of tags
CanonicalTags(tags) == {canonicalDiet(tags[i]) : i \in 1..Len(tags)}

\* restaurant r satisfies every criterion of the state's selection
Satisfies(r) ==
    /\ getCity(r) = canonicalCity(selectedCity)
    /\ \E field \in {r.name, r.cuisine, r.neighborhood} :
          Includes(ToLowerCase(field), ToLowerCase(searchQuery))
    /\ selectedFilters.diet # <<>> =>
          CanonicalTags(selectedFilters.diet) \cap CanonicalTags(r.dietaryTags) # {}
    /\ selectedFilters.oils # <<>> =>
          Elements(selectedFilters.oils) \cap Elements(r.oilsUsed) # {}
    /\ selectedFilters.neighborhood # <<>> => r.neighborhood = selectedFilters.neighborhood
    /\ selectedFilters.priceRange # <<>> => r.priceRange = selectedFilters.priceRange
    /\ selectedFilters.verified => r.verified

\* the state is the example of the claim: A (NYC, Keto), B (NYC, Vegan),
\* C (LA, Keto), city NYC, diet filter Keto, nothing else selected
KetoExample ==
    /\ restaurants = <<Alba, Basil, Cava>>
    /\ selectedCity = NYC
    /\ searchQuery = <<>>
    /\ selectedFilters = [NoFilters EXCEPT !.diet = <<<<"K","e","t","o">>>>]

\* C14: the visible list holds exactly the restaurants of the collection that
\* satisfy every criterion (city, search, diet, oils, neighborhood, price,
\* verified), each once; in the example of the claim it is [A].
C14_VisibleExactly ==
    Rendered =>
        /\ Elements(filteredRestaurants) = {r \in Elements(restaurants) : Satisfies(r)}
        /\ Len(filteredRestaurants) = Cardinality(Elements(filteredRestaurants))
        /\ KetoExample => filteredRestaurants = <<Alba>>

\* C14 witness: the example of the claim has been computed.
C14_Witness ==
    /\ Rendered
    /\ KetoExample
    /\ filteredRestaurants = <<Alba>>

\* the step computes the two lists
RenderStep == renders' = renders + 1

\* C15: a computation of the visible and featured lists leaves the collection
\* as it is (same length, same elements, same order), and a computation from
\* the inputs of the previous one gives the same two lists.
C15_EnginePure ==
    [][RenderStep =>
          /\ restaurants' = restaurants
          /\ Rendered => /\ filteredRestaurants' = filteredRestaurants
                          /\ homeFeatured' = homeFeatured]_vars

\* C15 witness: the lists have been computed twice from a collection whose
\* visible list is in another order than the collection.
C15_Witness ==
    /\ renders = 2
    /\ Len(filteredRestaurants) = Len(restaurants)
    /\ Len(restaurants) >= 3
    /\ filteredRestaurants # restaurants
    /\ Len(homeFeatured) = 3

\* the position of restaurant r in the collection (its fetch order)
FetchIndex(r) == CHOOSE i \in 1..Len(restaurants) : restaurants[i] = r

\* a goes before b, or ties with it, under the sort key of the state
InOrder(a, b) ==
    CASE sortBy = "rating"   -> a.rating >= b.rating
      [] sortBy = "price"    -> Len(a.priceRange) <= Len(b.priceRange)
      [] sortBy = "verified" -> a.verified \/ ~b.verified
      [] sortBy = "updated"  -> a.lastUpdated >= b.lastUpdated
      [] OTHER               -> TRUE

\* the state is the example of the claim: ratings 4.2, 4.9, 3.0 sorted by
\* rating
RatingExample ==
    /\ restaurants = <<Alba, Basil, Ember>>
    /\ selectedCity = NYC
    /\ searchQuery = <<>>
    /\ selectedFilters = NoFilters
    /\ sortBy = "rating"

\* C16: the visible list is a permutation of the restaurants that pass the
\* filter; any two of its entries are in the order of the sort key (rating
\* non-increasing, price non-decreasing, verified first, most recently updated
\* first, any other key: no constraint), and entries that tie are in fetch
\* order; ratings [4.2, 4.9, 3.0] come out as [4.9, 4.2, 3.0].
C16_SortedStable ==
    Rendered =>
        /\ Elements(filteredRestaurants) = {r \in Elements(restaurants) : Satisfies(r)}
        /\ Len(filteredRestaurants) = Cardinality(Elements(filteredRestaurants))
        /\ \A i, j \in 1..Len(filteredRestaurants) :
              i < j =>
                 LET a == filteredRestaurants[i]
                     b == filteredRestaurants[j]
                 IN  /\ InOrder(a, b)
                     /\ InOrder(b, a) => FetchIndex(a) < FetchIndex(b)
        /\ RatingExample => filteredRestaurants = <<Basil, Alba, Ember>>

\* C16 witness: the rating example has been computed.
C16_Witness ==
    /\ Rendered
    /\ RatingExample
    /\ filteredRestaurants = <<Basil, Alba, Ember>>

\* the keys and the values of a synonym map
MapKeys(map) == {map[i][1] : i \in 1..Len(map)}

MapValues(map) == {map[i][2] : i \in 1..Len(map)}

\* the synonym map of the canonicaliser that was drawn
DrawnMap == IF raw.fn = "canonicalCity" THEN CityMap ELSE DietMap

\* C17: both canonicalisers are idempotent: applied to its own result, each
\* returns that result; every value of either synonym map is returned
\* unchanged; and a city whose trimmed, lowercased text is not a key of the
\* map is returned as its trimmed text.
C17_Idempotent ==
    /\ Len(normalised) >= 2 => normalised[2] = normalised[1]
    /\ (Len(normalised) >= 1 /\ raw.value \in MapValues(DrawnMap))
          => normalised[1] = raw.value
    /\ (Len(normalised) >= 1 /\ raw.fn = "canonicalCity"
           /\ ToLowerCase(Trim(raw.value)) \notin MapKeys(CityMap))
          => normalised[1] = Trim(raw.value)

\* C17 on the texts that are not names of members of Object.prototype: the
\* three properties hold there.
C17_IdempotentOnOwnWords ==
    LET v == IF raw.fn = "canonicalCity" THEN ToLowerCase(Trim(raw.value))
             ELSE NormaliseDashes(CollapseSpaces(ToLowerCase(Trim(raw.value))))
    IN  v \notin ObjectPrototypeKeys => C17_Idempotent

\* a backend row has been normalised, and the restaurant it was normalised to
Normalised == Len(normalised) = 1

Restaurant == normalised[1]

\* the lowercased text contains a visit word / a call word; every keyword of
\* either list contains one of these words
SaysVisited(text) ==
    LET m == ToLowerCase(text)
    IN  Includes(m, <<"v","i","s","i","t">>) \/ Includes(m, <<"i","n"," ","p","e","r","s","o","n">>) \/ Includes(m, <<"i","n","-","p","e","r","s","o","n">>)

SaysCalled(text) ==
    LET m == ToLowerCase(text)
    IN  Includes(m, <<"c","a","l","l">>) \/ Includes(m, <<"p","h","o","n","e">>)

\* C18: the normalised verification method is null for a null or empty
\* column, 'Crunch Team Visited' when the text has a visit keyword, otherwise
\* 'Crunch Team Called' when it has a call keyword, otherwise 'Owner
\* Submitted'; the badge label is non-empty exactly for the Called and Visited
\* methods; the label of the raw text equals the label of the normalised
\* method; 'Phone call from team' is verified and 'submitted by owner' is not.
C18_Classification ==
    Normalised =>
        LET column == raw.verification_method
            method == Restaurant.verificationMethod
        IN  /\ method = IF column \in {NullText, <<>>} THEN NullText
                        ELSE IF SaysVisited(column) THEN CrunchTeamVisited
                        ELSE IF SaysCalled(column) THEN CrunchTeamCalled
                        ELSE OwnerSubmitted
            /\ getVerifyLabel(method) # <<>>
                 <=> method \in {CrunchTeamCalled, CrunchTeamVisited}
            /\ getVerifyLabel(column) = getVerifyLabel(method)
            /\ column = <<"P","h","o","n","e"," ","c","a","l","l"," ","f","r","o","m"," ","t","e","a","m">> => getVerifyLabel(column) = VerifiedByCrunch
            /\ column = <<"s","u","b","m","i","t","t","e","d"," ","b","y"," ","o","w","n","e","r">> => getVerifyLabel(column) = <<>>

\* C18 witness: 'Phone call from team' has been normalised to 'Crunch Team
\* Called' and shows the badge.
C18_Witness ==
    /\ Normalised
    /\ raw.verification_method = <<"P","h","o","n","e"," ","c","a","l","l"," ","f","r","o","m"," ","t","e","a","m">>
    /\ Restaurant.verificationMethod = CrunchTeamCalled
    /\ getVerifyLabel(Restaurant.verificationMethod) = VerifiedByCrunch

\* C19: the verified flag of a normalised restaurant is true exactly when its
\* verificationMethod is 'Crunch Team Called' or 'Crunch Team Visited'; so a
\* restaurant that passes the verified filter (its flag is true) shows a
\* non-empty badge label.
C19_VerifiedFromMethod ==
    Normalised =>
        /\ Restaurant.verified
             <=> Restaurant.verificationMethod \in {CrunchTeamCalled, CrunchTeamVisited}
        /\ Restaurant.verified => getVerifyLabel(Restaurant.verificationMethod) # <<>>

\* C19, what the code does keep: the verified flag is the truth value of the
\* row's verified column, whatever the method.
C19_VerifiedFromColumn ==
    Normalised => Restaurant.verified = (raw.verified = "true")


\* the texts an entry of the images field offers: a string itself, an object
\* its url and its src
LinkTexts(x) ==
    IF IsString(x) THEN <<x.s>>
    ELSE IF x.kind = "object"
         THEN (IF IsString(Get(x, <<"u","r","l">>)) THEN <<Get(x, <<"u","r","l">>).s>> ELSE <<>>)
              \o (IF IsString(Get(x, <<"s","r","c">>)) THEN <<Get(x, <<"s","r","c">>).s>> ELSE <<>>)
         ELSE <<>>

RECURSIVE AllLinkTexts(_)
AllLinkTexts(items) ==
    IF items = <<>> THEN <<>> ELSE LinkTexts(Head(items)) \o AllLinkTexts(Tail(items))

\* the absolute URLs the secondary images field of a row holds, in their
\* order: the field is an array of strings or of objects with url/src, an
\* object with url/src, an object with an images array, or a plain string
AbsoluteEntries(row) ==
    LET field  == row.image_urls
        parsed == JsonParse(Trim(field.text))
        value  == CASE field.type = "null" -> JNull
                    [] field.type = "json" -> field.value
                    [] OTHER -> IF parsed.ok THEN parsed.val ELSE JStr(Trim(field.text))
        images == Get(value, <<"i","m","a","g","e","s">>)
        texts  == CASE value.kind = "array" -> AllLinkTexts(value.items)
                    [] value.kind = "object" ->
                         LinkTexts(value)
                         \o (IF images.kind = "array" THEN AllLinkTexts(images.items)
                             ELSE <<>>)
                    [] OTHER -> LinkTexts(value)
    IN  SelectSeq(texts, IsAbsolute)

\* the trimmed primary image field of the drawn row
PrimaryImage == Trim(IF raw.image_url = NullText THEN <<>> ELSE raw.image_url)

\* primary 'not-a-url' with secondary '["https://x/a.jpg","not-a-url"]'
ImageExample ==
    /\ raw.image_url = <<"n","o","t","-","a","-","u","r","l">>
    /\ raw.image_urls = ImageUrlsText(<<"[","\"","h","t","t","p","s",":","/","/","x","/","a",".","j","p","g","\"",",","\"","n","o","t","-","a","-","u","r","l","\"","]">>)

\* C20: the resolved imageUrl is an absolute http(s) URL: the primary image
\* field when that is absolute; otherwise the first absolute URL of the
\* secondary images field; the fallback URL only when neither field holds an
\* absolute URL; the example resolves to https://x/a.jpg.
C20_FirstAbsolute ==
    Normalised =>
        LET entries == AbsoluteEntries(raw)
        IN  /\ IsAbsolute(Restaurant.imageUrl)
            /\ IsAbsolute(PrimaryImage) => Restaurant.imageUrl = PrimaryImage
            /\ (~IsAbsolute(PrimaryImage) /\ entries # <<>>)
                 => Restaurant.imageUrl = Head(entries)
            /\ (~IsAbsolute(PrimaryImage) /\ entries = <<>>)
                 => Restaurant.imageUrl = fallbackImage
            /\ ImageExample => Restaurant.imageUrl = <<"h","t","t","p","s",":","/","/","x","/","a",".","j","p","g">>

\* C20 with the fallback case alone: the fallback URL is the result only when
\* neither field holds an absolute URL.
C20_FallbackOnlyWhenNone ==
    (Normalised /\ Restaurant.imageUrl = fallbackImage)
        => ~IsAbsolute(PrimaryImage) /\ AbsoluteEntries(raw) = <<>>

\* C20, what the code does keep: the imageUrl is absolute; it is the primary
\* field when that is absolute, else one of the absolute URLs of the
\* secondary field or the fallback, and the fallback when there is none; the
\* example resolves to https://x/a.jpg.
C20_AbsoluteOrFallback ==
    Normalised =>
        LET entries == AbsoluteEntries(raw)
        IN  /\ IsAbsolute(Restaurant.imageUrl)
            /\ IsAbsolute(PrimaryImage) => Restaurant.imageUrl = PrimaryImage
            /\ ~IsAbsolute(PrimaryImage)
                 => \/ Restaurant.imageUrl = fallbackImage
                    \/ \E i \in 1..Len(entries) : Restaurant.imageUrl = entries[i]
            /\ (~IsAbsolute(PrimaryImage) /\ entries = <<>>)
                 => Restaurant.imageUrl = fallbackImage
            /\ ImageExample => Restaurant.imageUrl = <<"h","t","t","p","s",":","/","/","x","/","a",".","j","p","g">>


\* the list fields the drawn row was normalised to
Lists == normalised[1]

\* what the list of a column is to be: [] for null or an empty source, the
\* non-empty elements of a list, the trimmed non-empty parts of a text
ExpectedList(column) ==
    CASE column = [t |-> "array", v |-> <<"Olive Oil", "", "Tallow">>] ->
           <<"Olive Oil", "Tallow">>
      [] column.t = "string" /\ Len(column.v) > 3 ->
           <<<<"O","l","i","v","e"," ","O","i","l">>, <<"T","a","l","l","o","w">>, <<"G","h","e","e">>, <<"B","u","t","t","e","r">>>>
      [] OTHER -> <<>>

\* C21: normalising a row never throws; oilsUsed and oilsAvoided are the
\* list of their column (empty for null, an empty source or another shape,
\* the non-empty elements of a list, the trimmed non-empty parts of a
\* delimited text, in order) and dietaryTags the non-empty names of the tag
\* association, the empty list when that field is not a list.
C21_ListsNeverThrow ==
    Normalised =>
        /\ ~Lists.thrown
        /\ Lists.oilsUsed = ExpectedList(raw.oils_used)
        /\ Lists.oilsAvoided = ExpectedList(raw.oils_avoided)
        /\ Lists.dietaryTags = IF raw.restaurant_dietary_tags.t = "array"
                                  /\ raw.restaurant_dietary_tags.v # <<>>
                               THEN <<"Keto", "Vegan">> ELSE <<>>

\* C21 for the rows whose tag association is null, falsy or a list: the three
\* lists are as stated and nothing is thrown.
C21_ListsWhenTagsAreAList ==
    raw.restaurant_dietary_tags.t \in {"null", "falsy", "array"} => C21_ListsNeverThrow


\* the last step was a step of the suggestion submit with this outcome
SuggestStep(op) == fetchOp'.op = op /\ fetchOp' # fetchOp

\* C22: a submit with a blank name or address issues no insert; when the
\* insert fails the error notice is shown, the fields are as before and the
\* confirmation is not entered; when it succeeds the fields are cleared and
\* the confirmation is entered; in all three cases pendingSubmissions and
\* restaurants are unchanged.
C22_SuggestionSubmit ==
    [][/\ SuggestStep("suggestBlank")
            => /\ Trim(newSubmission.name) = <<>> \/ Trim(newSubmission.address) = <<>>
               /\ suggestOps' = suggestOps
               /\ pendingSubmissions' = pendingSubmissions /\ restaurants' = restaurants
       /\ SuggestStep("suggestInsert")
            => /\ Trim(newSubmission.name) # <<>> /\ Trim(newSubmission.address) # <<>>
               /\ Cardinality(suggestOps') = Cardinality(suggestOps) + 1
       /\ SuggestStep("suggestError")
            => /\ \E i \in 1..Len(NewToasts) :
                     NewToasts[i].message = "Failed to submit" /\ NewToasts[i].type = "error"
               /\ newSubmission' = newSubmission
               /\ suggestSuccess' = suggestSuccess
               /\ pendingSubmissions' = pendingSubmissions /\ restaurants' = restaurants
       /\ SuggestStep("suggestOk")
            => /\ newSubmission'.name = <<>> /\ newSubmission'.address = <<>>
               /\ suggestSuccess'
               /\ pendingSubmissions' = pendingSubmissions /\ restaurants' = restaurants
      ]_vars

\* C22 witness: a filled form was submitted, its insert succeeded, and the
\* confirmation is shown over the loaded listing.
C22_Witness ==
    /\ fetchOp.op = "suggestOk"
    /\ suggestSuccess
    /\ newSubmission = ClearedSubmission
    /\ restaurants # <<>>
    /\ pendingSubmissions # <<>>


\* the ids of the notices on screen
ToastIds == {toasts[i].id : i \in 1..Len(toasts)}

\* a step removed the notice with this id, if it was on screen, and left every
\* other notice where it was
RemovedOnly(id) ==
    LET at == {i \in 1..Len(toasts) : toasts[i].id = id}
    IN  IF at = {} THEN toasts' = toasts
        ELSE /\ Cardinality(at) = 1
             /\ Len(toasts') = Len(toasts) - 1
             /\ \A i \in 1..Len(toasts') :
                   toasts'[i] = toasts[IF \E k \in at : k <= i THEN i + 1 ELSE i]

\* C23: the timer of a notice firing, and a click on a notice's dismiss
\* button, remove exactly the notice with that id: the others stay, in the
\* same order; a timer that fires for a notice already dismissed changes
\* nothing.
C23_DismissExactlyOne ==
    [][/\ (timers # <<>> /\ timers' = Tail(timers)) => RemovedOnly(Head(timers))
       /\ (timers' = timers /\ toastCount' = toastCount /\ toasts' # toasts)
            => \E id \in ToastIds : id \notin {toasts'[i].id : i \in 1..Len(toasts')}
                                     /\ RemovedOnly(id)
      ]_vars

\* C23 witness: of three notices the second was dismissed by its button; the
\* first and the third are on screen in that order and all three timers are
\* still pending.
C23_Witness ==
    /\ toastCount = 3
    /\ timers = <<1, 2, 3>>
    /\ Len(toasts) = 2 /\ toasts[1].id = 1 /\ toasts[2].id = 3

\* C24: every notice that is on screen is eventually off screen, whatever
\* notices are shown or dismissed meanwhile, when pending timers fire.
C24_EveryToastRemoved ==
    \A id \in 1..MaxToasts : (id \in ToastIds) ~> (id \notin ToastIds)

\* C24 witness: two notices are on screen, the older one's timer has fired
\* for a notice dismissed before, and a timer is pending for each notice on
\* screen.
C24_Witness ==
    /\ toastCount = 3
    /\ timers = <<2, 3>>
    /\ ToastIds = {2, 3}


\* every key of a selection but those of a set has the value it had
SameBut(after, before, keys) == \A k \in FilterTypes \ keys : after[k] = before[k]

\* C25: a diet or oils change with value t toggles the membership of t in
\* that selection (every other tag stays selected) and leaves the other four
\* fields alone; the same change made twice restores the selection as a set;
\* a neighborhood, price or verified change overwrites that field alone.
C25_ToggleOnly ==
    LET before == raw.filters
        type   == raw.type
        t      == raw.text
    IN  /\ (Len(normalised) >= 1 /\ type \in {"diet", "oils"})
             => LET after == normalised[1]
                IN  /\ Elements(after[type])
                         = IF t \in Elements(before[type])
                           THEN Elements(before[type]) \ {t}
                           ELSE Elements(before[type]) \cup {t}
                    /\ SameBut(after, before, {type})
        /\ (Len(normalised) >= 2 /\ type \in {"diet", "oils"})
             => /\ Elements(normalised[2][type]) = Elements(before[type])
                /\ SameBut(normalised[2], before, {type})
        /\ (Len(normalised) >= 1 /\ type \in {"neighborhood", "priceRange"})
             => /\ normalised[1][type] = t
                /\ SameBut(normalised[1], before, {type})
        /\ (Len(normalised) >= 1 /\ type = "verified")
             => /\ normalised[1].verified = raw.flag
                /\ SameBut(normalised[1], before, {"verified"})

\* C25 witness: Keto was selected with verified and a price; the diet change
\* with Keto was made twice: off, then on again.
C25_Witness ==
    /\ Len(normalised) = 2
    /\ raw.type = "diet" /\ raw.text = <<"K","e","t","o">>
    /\ raw.filters.diet = <<<<"K","e","t","o">>>> /\ raw.filters.verified
    /\ normalised[1].diet = <<>>
    /\ normalised[2] = raw.filters


\* the approve / reject invocations that await the delete of a pending row
AwaitingDelete(ops) == {m \in ops : m.pc = "delete"}

\* a step issued no remote request and changed neither local collection
StoppedThere ==
    /\ pendingSubmissions' = pendingSubmissions
    /\ restaurants' = restaurants
    /\ inflight' = inflight /\ issued' = issued
    /\ AwaitingDelete(modOps') \subseteq AwaitingDelete(modOps)
    /\ Cardinality(modOps') <= Cardinality(modOps)
    /\ dbPending' = dbPending /\ dbInserted' = dbInserted

\* C26: when the insert of approve fails, and when the delete of reject
\* fails, the step raises an error notice, leaves pendingSubmissions and
\* restaurants alone and issues neither a delete nor a re-fetch; approve(id)
\* for an id that is not in pendingSubmissions issues no request.
C26_FailureStops ==
    [][/\ (fetchOp'.op = "approveInsertError" /\ modOps' # modOps)
            => /\ StoppedThere
               /\ \E i \in 1..Len(NewToasts) :
                     NewToasts[i].message = "Approve failed" /\ NewToasts[i].type = "error"
       /\ (fetchOp'.op = "rejectError" /\ modOps' # modOps)
            => /\ StoppedThere
               /\ \E i \in 1..Len(NewToasts) :
                     NewToasts[i].message = "Failed to reject" /\ NewToasts[i].type = "error"
       /\ (modCount' # modCount /\ fetchOp'.op = "approve"
             /\ fetchOp'.id \notin SubmissionIdsOf(pendingSubmissions))
            => StoppedThere /\ modOps' = modOps /\ toasts' = toasts
      ]_vars

\* C26 witness: the pending list was loaded, the insert of an approve failed
\* and its error notice is on screen; the list still holds the submission.
C26_Witness ==
    /\ fetchOp.op = "approveInsertError"
    /\ fetchOp.id \in SubmissionIdsOf(pendingSubmissions)
    /\ modOps = {}
    /\ \E i \in 1..Len(toasts) : toasts[i].message = "Approve failed"


\* the ids whose approve has completed after a successful insert: the row was
\* inserted and no approve of the id is still awaited
ApprovedIds ==
    {id \in SubmissionIds :
        /\ id \in BagToSet(dbInserted)
        /\ ~\E m \in modOps : m.kind = "approve" /\ m.id = id}

\* C27: an id whose approve has completed after a successful insert is not in
\* pendingSubmissions, whatever fetches have resolved since, also when the
\* delete of the pending row had failed.
C27_ApprovedStaysOut ==
    \A id \in ApprovedIds : id \notin SubmissionIdsOf(pendingSubmissions)

\* a lower bound on the restaurant inserts issued for id: the rows inserted
\* for it so far and the inserts of it that are awaited
InsertsIssued(id) ==
    CopiesIn(id, dbInserted)
      + Cardinality({m \in modOps : m.kind = "approve" /\ m.id = id /\ m.pc = "insert"})

\* C28: for every submission id at most one restaurant insert is ever issued,
\* also when approve(id) is invoked again before the first call has completed.
C28_PromotedOnce ==
    \A id \in SubmissionIds : InsertsIssued(id) <= 1

\* C29: isAdmin is true only if the most recent auth state change carried a
\* signed-in user whose role is 'admin': not after a sign-out, not after a
\* switch to a user whose role lookup fails or is not 'admin', and not when a
\* lookup of an earlier session resolves after a later auth state change.
C29_AdminOfCurrentSession ==
    isAdmin => (sessionUser \in Users /\ UserRole(sessionUser) = "admin")

\* C30: loading is true in every state in which a fetchData invocation has
\* started and not yet finished, the overlapping reset fetches of the mount
\* included; loading is false only when no invocation is in flight.
C30_LoadingWhileInFlight ==
    (inflight # EmptyBag) => loading

====
